---- MODULE Spec2Model ----
(***************************************************************************)
(* VidyaLok library system: the personalized recommendation engine         *)
(* (getPersonalizedRecommendations and its helpers).                       *)
(*                                                                         *)
(* One behaviour of Spec is one invocation of the engine against a store   *)
(* (user, book and borrowing tables) and a catalog snapshot.  Every await  *)
(* of the source is a step: the action named after a query is the arrival  *)
(* of that query's result together with the synchronous code that runs up  *)
(* to the next await.  Another request may add a copy to a book between    *)
(* two reads of the book table.  SpecBusy is the same engine against a     *)
(* borrowing table with more rows than the history query takes and more    *)
(* borrowed books than the popular set holds.                              *)
(*                                                                         *)
(* Strings the code inspects (categories, interests, departments, titles)  *)
(* are sequences of one-character strings, so that trim, toLowerCase and   *)
(* includes are computed and not assumed.  Ids are TLA+ strings.           *)
(***************************************************************************)
EXTENDS Integers, Sequences, FiniteSets, TLC

\* ------------------------------------------------------------------------
\* Bounds of the model
\* ------------------------------------------------------------------------

\* largest explicit limit a caller passes (the omitted limit, 6, is extra)
MaxLimit == 2

\* the copies handed in during one invocation
MaxReturns == 1

\* ------------------------------------------------------------------------
\* Program constants
\* ------------------------------------------------------------------------

NEW_ARRIVAL_DAYS == 60
POPULAR_LOOKBACK_DAYS == 90
POPULAR_SAMPLE_SIZE == 300
DEFAULT_LIMIT == 6
HISTORY_TAKE == 40
POPULAR_TOP == 20

\* ------------------------------------------------------------------------
\* Text: JavaScript strings as sequences of characters
\* ------------------------------------------------------------------------

\* null of a nullable string field (no text has a multi-character element)
NULL == <<"null">>

\* null of a nullable array of strings
NULL_ARRAY == <<NULL>>

\* undefined of an optional array of ids
UNDEFINED == <<"undefined">>

IsWhitespace(c) == c = " "

\* String.prototype.toLowerCase, on the characters the model uses
LowerChar(c) ==
    CASE c = "A" -> "a"
      [] c = "C" -> "c"
      [] c = "E" -> "e"
      [] c = "I" -> "i"
      [] c = "M" -> "m"
      [] c = "P" -> "p"
      [] OTHER -> c

toLowerCase(s) == [i \in 1..Len(s) |-> LowerChar(s[i])]

\* String.prototype.trim
trim(s) ==
    LET keep == {i \in 1..Len(s) : ~IsWhitespace(s[i])}
    IN  IF keep = {} THEN <<>>
        ELSE LET lo == CHOOSE i \in keep : \A j \in keep : i <= j
                 hi == CHOOSE i \in keep : \A j \in keep : i >= j
             IN  SubSeq(s, lo, hi)

\* String.prototype.includes
includes(s, t) ==
    \E i \in 0..(Len(s) - Len(t)) : SubSeq(s, i + 1, i + Len(t)) = t

\* Boolean(x) of a nullable string: null and "" are falsy
Truthy(s) == s # NULL /\ s # <<>>

\* a ?? b, for a nullable string, a nullable array of strings and an
\* optional array of ids
Coalesce(a, b) == IF a = NULL THEN b ELSE a

CoalesceArray(a, b) == IF a = NULL_ARRAY THEN b ELSE a

CoalesceIds(a, b) == IF a = UNDEFINED THEN b ELSE a

\* position of a character in the collation order of localeCompare:
\* letters in alphabetical order, space first, lower case before upper case
CharRank(c) ==
    CASE c = " " -> 0
      [] c = "a" -> 10 [] c = "A" -> 11
      [] c = "c" -> 30 [] c = "C" -> 31
      [] c = "e" -> 50 [] c = "E" -> 51
      [] c = "h" -> 80 [] c = "H" -> 81
      [] c = "i" -> 90 [] c = "I" -> 91
      [] c = "m" -> 130 [] c = "M" -> 131
      [] c = "p" -> 160 [] c = "P" -> 161
      [] c = "x" -> 240 [] c = "X" -> 241
      [] OTHER -> 300

\* a.localeCompare(b): negative, zero or positive
localeCompare(a, b) ==
    LET n == IF Len(a) < Len(b) THEN Len(a) ELSE Len(b)
        diff == {i \in 1..n : a[i] # b[i]}
    IN  IF diff = {}
        THEN Len(a) - Len(b)
        ELSE LET k == CHOOSE i \in diff : \A j \in diff : i <= j
             IN  CharRank(a[k]) - CharRank(b[k])

\* ------------------------------------------------------------------------
\* Arrays, Sets and Maps (all three keep insertion order)
\* ------------------------------------------------------------------------

Range(s) == {s[i] : i \in 1..Len(s)}

\* slice without its end: the whole array
slice_uncut(s, n) == s

\* Array.prototype.slice(0, n), n >= 0
slice(s, n) == SubSeq(s, 1, IF n < Len(s) THEN n ELSE Len(s))

\* Array.from(new Set(s)): the first occurrence of every element, in order
ArrayFromSet(s) ==
    LET first == {i \in 1..Len(s) : \A j \in 1..(i - 1) : s[j] # s[i]}
        F[i \in 0..Len(s)] ==
            IF i = 0 THEN <<>>
            ELSE IF i \in first THEN Append(F[i - 1], s[i]) ELSE F[i - 1]
    IN  F[Len(s)]

\* the comparators the code sorts with
\* orderBy: { borrowDate: 'desc' }
ByBorrowDateDesc(a, b) == a.daysAgo - b.daysAgo

\* orderBy: { addedAt: 'desc' }
ByAddedAtDesc(a, b) == a.age - b.age

\* (a, b) => b[1] - a[1] on the entries of a counting Map
ByCountDesc(a, b) == b[2] - a[2]

\* a ranking by score alone
ByScoreThenCopies_scoreOnly(a, b) == b.score - a.score

\* the comparator of the final ranking
ByScoreThenCopies(a, b) ==
    IF b.score # a.score
    THEN b.score - a.score
    ELSE b.availableCopies - a.availableCopies

\* the bridge's ranking without its last key
ByScoreCopiesTitle_noTitle(a, b) ==
    IF b.score # a.score
    THEN b.score - a.score
    ELSE b.book.copies - a.book.copies

\* the comparator of the bridge's ranking
ByScoreCopiesTitle(a, b) ==
    IF b.score # a.score
    THEN b.score - a.score
    ELSE IF b.book.copies # a.book.copies
         THEN b.book.copies - a.book.copies
         ELSE localeCompare(a.book.title, b.book.title)

\* the comparator of a given name applied to a and b
Compare(cmp, a, b) ==
    CASE cmp = "ByBorrowDateDesc" -> ByBorrowDateDesc(a, b)
      [] cmp = "ByAddedAtDesc" -> ByAddedAtDesc(a, b)
      [] cmp = "ByCountDesc" -> ByCountDesc(a, b)
      [] cmp = "ByScoreThenCopies" -> ByScoreThenCopies(a, b)
      [] cmp = "ByScoreCopiesTitle" -> ByScoreCopiesTitle(a, b)

\* Array.prototype.sort(cmp) and orderBy: a stable sort by the comparator
sort(s, cmp) ==
    LET n == Len(s)
        position == [i \in 1..n |->
                        1 + Cardinality({j \in 1..n :
                                LET order == Compare(cmp, s[j], s[i])
                                IN  order < 0 \/ (order = 0 /\ j < i)})]
    IN  [k \in 1..n |-> s[CHOOSE i \in 1..n : position[i] = k]]

\* the entries of a counting Map built by scanning keys in order:
\* one <<key, count>> per distinct key, in order of first occurrence
CountEntries(keys) ==
    LET distinct == ArrayFromSet(keys)
    IN  [k \in 1..Len(distinct) |->
            <<distinct[k],
              Cardinality({i \in 1..Len(keys) : keys[i] = distinct[k]})>>]

Abs(x) == IF x < 0 THEN -x ELSE x

Max(a, b) == IF a >= b THEN a ELSE b

\* ------------------------------------------------------------------------
\* The data the model draws the store and the snapshot from
\* ------------------------------------------------------------------------

AI == <<"A", "I">>
Ma == <<"M", "a">>
Ph == <<"P", "h">>
CE == <<"C", "E">>
ME == <<"M", "E">>
Blank == <<" ">>
Empty == <<>>

\* rows of the book collection; age = whole days from addedAt to now
\* (negative: addedAt ahead of the server clock)
BookUniverse ==
    << [id |-> "b1", title |-> <<"A", "i", " ", "x">>, author |-> <<"m">>,
        category |-> AI, department |-> CE, availableCopies |-> 2, age |-> 10],
       [id |-> "b2", title |-> <<"M", "a">>, author |-> NULL,
        category |-> Ma, department |-> ME, availableCopies |-> 6, age |-> 61],
       [id |-> "b3", title |-> <<"a", "i">>, author |-> <<"x">>,
        category |-> AI, department |-> ME, availableCopies |-> 0, age |-> -3],
       [id |-> "b4", title |-> <<"P", "h">>, author |-> <<"x">>,
        category |-> Ph, department |-> CE, availableCopies |-> 5, age |-> 60] >>

\* rows of the borrowing collection; daysAgo = whole days from borrowDate to now
BorrowingUniverse ==
    << [userId |-> "u1", bookId |-> "b3", status |-> "RETURNED", daysAgo |-> 20],
       [userId |-> "u1", bookId |-> "b3", status |-> "RETURNED", daysAgo |-> 30],
       [userId |-> "u2", bookId |-> "b1", status |-> "BORROWED", daysAgo |-> 10],
       [userId |-> "u1", bookId |-> "b2", status |-> "OVERDUE", daysAgo |-> 95] >>

\* the profiles user u1 may have in the user collection
UserProfiles ==
    { [id |-> "u1", branch |-> NULL, department |-> NULL, interests |-> NULL_ARRAY],
      [id |-> "u1", branch |-> CE, department |-> ME, interests |-> <<AI>>],
      [id |-> "u1", branch |-> NULL, department |-> <<"c", "e">>,
       interests |-> <<Empty, AI, AI>>],
      [id |-> "u1", branch |-> NULL, department |-> NULL,
       interests |-> <<Blank, AI>>],
      [id |-> "u1", branch |-> CE, department |-> NULL,
       interests |-> <<AI, Ma>>] }

\* records of the catalog snapshot (Books Dataset.csv as loaded by getAllBooks)
DatasetUniverse ==
    << [id |-> "book-1", title |-> <<"A", "i">>, author |-> <<>>,
        department |-> CE, copies |-> 5],
       [id |-> "book-2", title |-> <<"M", "a">>, author |-> <<"a", "I">>,
        department |-> ME, copies |-> 0],
       [id |-> "book-3", title |-> <<"P", "h">>, author |-> <<"x">>,
        department |-> <<"c", "e">>, copies |-> 2],
       [id |-> "book-4", title |-> <<"a", "x">>, author |-> <<>>,
        department |-> ME, copies |-> 2] >>

\* a busy library: one borrowing collection with more rows than the history
\* query takes and more books than the popular set holds. PopularPool are the books borrowed twice lately.
PopularPool ==
    << "b1", "p02", "p03", "p04", "p05", "p06", "p07",
       "p08", "p09", "p10", "p11", "p12", "p13", "p14",
       "p15", "p16", "p17", "p18", "p19" >>

\* the book of the i-th latest borrowing of the other readers
CrowdBookIdAt(i) ==
    IF i <= 38 THEN PopularPool[((i - 1) % 19) + 1]
    ELSE IF i <= 40 THEN "b4"
    ELSE IF i <= 43 THEN "b3"
    ELSE "b4"

\* the other readers' borrowings, latest first: 43 within the last 90 days
\* (the last one exactly 90 days old) and one of 91 days ago
CrowdBorrowings ==
    [i \in 1..44 |->
        [userId |-> "u2", bookId |-> CrowdBookIdAt(i), status |-> "RETURNED",
         daysAgo |-> IF i <= 42 THEN (i - 1) \div 4 ELSE i + 47]]

\* the book of u1's i-th latest borrowing; b0 has left the collection
HistoryBookIdAt(i) ==
    IF i \in {1, 4} THEN "b4"
    ELSE IF i \in {2, 3, 41} THEN "b2"
    ELSE IF i = 5 THEN "b3"
    ELSE IF i \in {6, 7} THEN "b1"
    ELSE "b0"

\* u1's 41 borrowings, stored oldest first, all older than 90 days
HeavyHistory ==
    [i \in 1..41 |->
        [userId |-> "u1", bookId |-> HistoryBookIdAt(42 - i),
         status |-> IF i = 37 THEN "RENEWED" ELSE "RETURNED",
         daysAgo |-> 142 - i]]

BusyBorrowings == CrowdBorrowings \o HeavyHistory

\* the rows of a universe picked by a set of positions, in universe order
Rows(universe, picked) ==
    LET F[i \in 0..Len(universe)] ==
            IF i = 0 THEN <<>>
            ELSE IF i \in picked THEN Append(F[i - 1], universe[i]) ELSE F[i - 1]
    IN  F[Len(universe)]

UserIds == {"u1", "u0"}

\* input.limit: <<>> when omitted, <<n>> when given
Limits == {<<>>} \cup {<<n>> : n \in 1..MaxLimit}

ExcludeLists == {UNDEFINED, <<"b1", "book-1">>, <<"dataset-book-1">>}

ActiveStatuses == {"BORROWED", "OVERDUE", "RENEWED"}

\* ------------------------------------------------------------------------
\* State
\* ------------------------------------------------------------------------

VARIABLES
    userTable,        \* the user collection: the profiles stored
    bookTable,        \* the book collection, in storage order
    borrowingTable,   \* the borrowing collection, in storage order
    returns,          \* the copies handed in while the invocation runs
    input,            \* RecommendationInput of the invocation
    pc,               \* the await the invocation is suspended at
    queries,          \* the reads issued so far, in order of issue
    limit,            \* const limit
    user,             \* const user
    activeBorrowings, \* first result of the Promise.all
    recentHistory,    \* second result of the Promise.all
    pending,          \* the queries of the Promise.all not yet settled
    excludeIds,       \* const excludeIds (a Set)
    derivedCategories,
    explicitInterests,
    userDepartment,
    popularIdSet,     \* const popularIdSet, in insertion order
    topupIds,         \* the ids passed to fetchBooksByIds
    primaryCandidates, \* const primaryCandidates
    fallbackBooks,    \* const fallbackBooks
    popularBooks,     \* const popularBooks
    candidateMap,     \* the values of candidateMap, in insertion order
    fallbackUsed,     \* let fallbackUsed
    enriched,         \* the scored and sorted candidates before slice
    items,            \* let items
    fromDataset,      \* items was replaced by the dataset bridge's list
    snapshot,         \* what getAllBooks returned, once the bridge ran
    result,           \* the RecommendationResult returned
    failed            \* the read whose failure rejected the invocation

store == <<userTable, bookTable, borrowingTable>>

locals == <<limit, user, activeBorrowings, recentHistory, pending, excludeIds,
            derivedCategories, explicitInterests, userDepartment,
            popularIdSet, topupIds, candidateMap, fallbackUsed, enriched, items,
            fromDataset, snapshot, primaryCandidates, fallbackBooks,
            popularBooks>>

\* the results of the three tiers
tiers == <<primaryCandidates, fallbackBooks, popularBooks>>

\* the state of the recommendation engine
engine == <<store, returns, input, pc, queries, locals, result, failed>>

\* The catalog snapshot cache (book-autocorrect.ts) and the file it reads
VARIABLES
    fileVersion,      \* which content Books Dataset.csv holds
    fileMtime,        \* stats.mtimeMs of the file
    clock,            \* Date.now()
    cachedBooks,      \* let cachedBooks
    cachedMtime,      \* let cachedMtime
    call              \* the getAllBooks calls: where each one is suspended

cacheVars == <<fileVersion, fileMtime, clock, cachedBooks, cachedMtime, call>>

\* The login rate limiter (rate-limiter.ts) and the authorize calls using it
VARIABLES
    attempts,         \* private attempts: the entry of every key
    now,              \* Date.now() as the limiter sees it, in ms
    login,            \* the authorize calls: where each one is suspended
    started,          \* how many authorize calls were made
    blockedUntil      \* per key: expiresAt of the window that reached 5

loginVars == <<attempts, now, login, started, blockedUntil>>

\* The route middleware (middleware.ts)
VARIABLES
    route             \* the browser's request and what was answered to it

routeVars == <<route>>

\* The signed QR tokens (qr-utils.ts)
VARIABLES
    qrNow,            \* Date.now() as the QR functions see it, in ms
    issued,           \* the tokens createSignedQRToken has returned
    verified          \* the last call of verifySignedQRToken and its end

qrVars == <<qrNow, issued, verified>>

\* the state of the parts next to the engine
others == <<cacheVars, loginVars, routeVars, qrVars>>

\* what an action of the snapshot cache leaves alone
notCache == <<engine, loginVars, routeVars, qrVars>>

\* what an action of the login leaves alone
notLogin == <<engine, cacheVars, routeVars, qrVars>>

\* what an action of the middleware leaves alone
notRoutes == <<engine, cacheVars, loginVars, qrVars>>

\* what an action of the QR tokens leaves alone
notQR == <<engine, cacheVars, loginVars, routeVars>>

vars == <<engine, others>>

\* largest number of contents the file goes through
MaxVersions == 3

\* largest value of the clock
MaxClock == 3

\* the getAllBooks calls of one behaviour
MaxCalls == 2

Calls == 1..MaxCalls

\* cachedBooks = null, and the books of a call that has not returned
NOT_CACHED == <<[id |-> "null", title |-> "", author |-> "", department |-> "",
                 copies |-> 0]>>

\* null for a modification time (no file of the model has mtime 0)
NO_MTIME == 0

NO_CONTENT == <<[title |-> "null", author |-> "", Department |-> "", Count |-> 0]>>

IdleCall == [pc |-> "idle", currentMtime |-> NO_MTIME, csvContent |-> NO_CONTENT,
             startVersion |-> 0, statOk |-> FALSE, books |-> NOT_CACHED]

\* the module was just loaded, the file has its first content
CacheIdle ==
    /\ fileVersion = 1
    /\ fileMtime = 1
    /\ clock = 1
    /\ cachedBooks = NOT_CACHED
    /\ cachedMtime = NO_MTIME
    /\ call = [c \in Calls |-> IdleCall]

\* authorize calls running at the same time
MaxLogins == 2

\* authorize calls made in one behaviour
MaxLoginCalls == 7

\* how often the limiter's clock advances
MaxTicks == 2

Logins == 1..MaxLogins

\* windowMs and maxAttempts of loginRateLimiter
windowMs == 5 * 60 * 1000

maxAttempts == 5

\* the clock advances by half a window
TickMs == windowMs \div 2

STUDENT == <<"S", "T", "U", "D", "E", "N", "T">>
ADMIN == <<"A", "D", "M", "I", "N">>

\* the credentials submitted to authorize; "" is a missing field
CredentialInputs ==
    { [userType |-> STUDENT, identifier |-> <<"a", "1">>, password |-> "right"],
      [userType |-> <<"s", "t", "u", "d", "e", "n", "t">>,
       identifier |-> <<" ", "a", "1">>, password |-> "wrong"],
      [userType |-> STUDENT, identifier |-> <<"A", "1">>, password |-> "right"],
      [userType |-> ADMIN, identifier |-> <<"M", "@", "x">>, password |-> "right"],
      [userType |-> <<"g", "u", "e", "s", "t">>, identifier |-> <<"a", "1">>,
       password |-> "right"],
      [userType |-> STUDENT, identifier |-> <<"a", "1">>, password |-> ""] }

\* the rows of the user table authorize can find: student a1 (active) and
\* the admin m@x (disabled)
AuthUsers ==
    { [studentId |-> <<"a", "1">>, email |-> <<>>, role |-> "STUDENT",
       isActive |-> TRUE, password |-> "right"],
      [studentId |-> <<>>, email |-> <<"m", "@", "x">>, role |-> "LIBRARIAN",
       isActive |-> FALSE, password |-> "right"] }

NO_AUTH_USER == [studentId |-> <<>>, email |-> <<>>, role |-> "null",
                 isActive |-> FALSE, password |-> ""]

\* String.prototype.toUpperCase, on the letters of the user types
UpperChar(c) ==
    CASE c = "s" -> "S" [] c = "t" -> "T" [] c = "u" -> "U" [] c = "d" -> "D"
      [] c = "e" -> "E" [] c = "n" -> "N" [] c = "a" -> "A" [] c = "m" -> "M"
      [] c = "i" -> "I" [] c = "g" -> "G"
      [] OTHER -> c

toUpperCase(s) == [i \in 1..Len(s) |-> UpperChar(s[i])]

\* `${userType}:${normalizedIdentifier}`
rateLimiterKeyOf(credentials) ==
    toUpperCase(credentials.userType) \o <<":">>
        \o toLowerCase(trim(credentials.identifier))

LimiterKeys == {rateLimiterKeyOf(credentials) : credentials \in CredentialInputs}

\* the Map has no entry for the key (an entry has count >= 1)
NO_ENTRY == [count |-> 0, expiresAt |-> 0]

IdleLogin == [pc |-> "idle",
              credentials |-> [userType |-> <<>>, identifier |-> <<>>,
                               password |-> ""],
              key |-> <<>>,
              user |-> NO_AUTH_USER, outcome |-> "none", retryAfterMs |-> 0,
              lookedUp |-> FALSE, recorded |-> FALSE, madeBlocked |-> FALSE]

\* the limiter was just constructed, no authorize call was made
LoginIdle ==
    /\ attempts = [key \in LimiterKeys |-> NO_ENTRY]
    /\ now = 0
    /\ login = [c \in Logins |-> IdleLogin]
    /\ started = 0
    /\ blockedUntil = [key \in LimiterKeys |-> 0]

\* redirects the browser follows for one request
MaxRedirects == 4

\* the paths, as strings of characters
SlashAdmin == <<"/", "a", "d", "m", "i", "n">>
SlashStudent == <<"/", "s", "t", "u", "d", "e", "n", "t">>
SlashLogin == <<"/", "l", "o", "g", "i", "n">>
SlashRegister == <<"/", "r", "e", "g", "i", "s", "t", "e", "r">>

PUBLIC_ADMIN_ROUTES == {SlashAdmin \o SlashLogin, SlashAdmin \o SlashRegister}
PUBLIC_STUDENT_ROUTES == {SlashLogin, SlashRegister}

\* the paths a browser asks for: /admin, /admin/login, /admin/register,
\* /admin/books, /administrator, /student, /student/login, /student/books,
\* /login, /register, /books and /
RequestPaths ==
    LET SlashBooks == <<"/", "b", "o", "o", "k", "s">>
    IN
    { SlashAdmin, SlashAdmin \o SlashLogin, SlashAdmin \o SlashRegister,
      SlashAdmin \o SlashBooks,
      SlashAdmin \o <<"i", "s", "t", "r", "a", "t", "o", "r">>,
      SlashStudent, SlashStudent \o SlashLogin, SlashStudent \o SlashBooks,
      SlashLogin, SlashRegister, SlashBooks, <<"/">> }

\* req.nextauth.token: none, or a token with its role (a role the
\* application does not know, or no role at all, is "undefined")
NO_TOKEN == "null"

TokenRoles == {"STUDENT", "ADMIN", "LIBRARIAN", "undefined"}

\* no request was made
RouteIdle ==
    route = [status |-> "idle", token |-> NO_TOKEN, start |-> <<>>,
                path |-> <<>>, redirects |-> 0, by |-> "none"]

\* tokens issued in one behaviour
MaxTokens == 1

\* how often the clock of the QR functions advances
MaxQRTicks == 2

\* no payload was decoded
NO_PAYLOAD == [version |-> 0, studentId |-> <<>>, studentName |-> <<>>,
               department |-> NULL, issuedAt |-> 0, expiresAt |-> 0,
               nonce |-> <<>>]

QRIdle ==
    /\ qrNow = 0
    /\ issued = <<>>
    /\ verified = [outcome |-> "none", token |-> <<>>, at |-> 0,
                    payload |-> NO_PAYLOAD, decoded |-> FALSE]

OthersIdle == CacheIdle /\ LoginIdle /\ RouteIdle /\ QRIdle

\* prisma.user.findUnique found nothing
NO_USER == [id |-> "null", branch |-> NULL, department |-> NULL,
            interests |-> NULL_ARRAY]

\* what getAllBooks could not return
NO_SNAPSHOT == <<[id |-> "unread", title |-> <<>>, author |-> <<>>,
                  department |-> <<>>, copies |-> 0]>>

NO_RESULT == [items |-> <<>>,
              context |-> [explicitInterests |-> <<>>,
                           derivedCategories |-> <<>>,
                           department |-> NULL,
                           fallbackUsed |-> FALSE],
              returned |-> FALSE]

\* ------------------------------------------------------------------------
\* The store's queries (Prisma), evaluated on the tables
\* ------------------------------------------------------------------------

SelectedBook(book) ==
    [id |-> book.id, title |-> book.title, author |-> book.author,
     category |-> book.category, department |-> book.department,
     availableCopies |-> book.availableCopies, age |-> book.age]

\* prisma.user.findUnique({ where: { id } })
findUser(userId) ==
    IF \E u \in userTable : u.id = userId
    THEN CHOOSE u \in userTable : u.id = userId
    ELSE NO_USER

\* prisma.borrowing.findMany: the user's borrowings of an active status
findActiveBorrowings(userId) ==
    LET rows == SelectSeq(borrowingTable,
                    LAMBDA r : r.userId = userId /\ r.status \in ActiveStatuses)
    IN  [i \in 1..Len(rows) |-> [bookId |-> rows[i].bookId]]

\* prisma.borrowing.findMany: the user's 40 latest borrowings, each joined
\* with its book's category (null when the book row is gone)
findRecentHistory(userId) ==
    LET rows == slice(sort(SelectSeq(borrowingTable,
                               LAMBDA r : r.userId = userId),
                           "ByBorrowDateDesc"),
                      HISTORY_TAKE)
        categoryOf(bookId) ==
            IF \E i \in 1..Len(bookTable) : bookTable[i].id = bookId
            THEN bookTable[CHOOSE i \in 1..Len(bookTable) :
                               bookTable[i].id = bookId].category
            ELSE NULL
    IN  [i \in 1..Len(rows) |->
            [bookId |-> rows[i].bookId, category |-> categoryOf(rows[i].bookId)]]

\* prisma.borrowing.findMany of fetchPopularBookIds: the sample
findPopularSample ==
    LET rows == slice(sort(SelectSeq(borrowingTable,
                               LAMBDA r : r.daysAgo <= POPULAR_LOOKBACK_DAYS),
                           "ByBorrowDateDesc"),
                      POPULAR_SAMPLE_SIZE)
    IN  [i \in 1..Len(rows) |-> [bookId |-> rows[i].bookId]]

\* prisma.book.findMany({ where, orderBy: { addedAt: 'desc' }, take })
\* where = { availableCopies > 0, id notIn exclude, OR: orClauses if any };
\* a clause is [field, values]: the book's field is one of the values
findBooks(exclude, orClauses, take) ==
    LET holds(clause, book) ==
            IF clause.field = "category"
            THEN book.category \in Range(clause.values)
            ELSE book.department \in Range(clause.values)
        matches(book) ==
            /\ book.availableCopies > 0
            /\ book.id \notin exclude
            /\ Len(orClauses) > 0 =>
                  \E k \in 1..Len(orClauses) : holds(orClauses[k], book)
        rows == slice(sort(SelectSeq(bookTable, matches), "ByAddedAtDesc"), take)
    IN  [i \in 1..Len(rows) |-> SelectedBook(rows[i])]

\* prisma.book.findMany({ where: { id: { in: bookIds } } })
findBooksIn(bookIds) ==
    LET rows == SelectSeq(bookTable, LAMBDA book : book.id \in Range(bookIds))
    IN  [i \in 1..Len(rows) |-> SelectedBook(rows[i])]

\* ------------------------------------------------------------------------
\* The engine's helpers
\* ------------------------------------------------------------------------

buildExcludeSet(in, borrowings) ==
    Range(CoalesceIds(in.excludeBookIds, <<>>))
        \cup {borrowings[i].bookId : i \in {j \in 1..Len(borrowings) :
                                               borrowings[j].bookId # ""}}

\* a single occurrence already derives a category
collectTopCategoriesFromHistory_once(history) ==
    LET trimmed == [i \in 1..Len(history) |->
                       IF history[i].category = NULL THEN NULL
                       ELSE trim(history[i].category)]
        counted == SelectSeq(trimmed, Truthy)
        counts == CountEntries(counted)
        sorted == sort(SelectSeq(counts, LAMBDA e : e[2] >= 1), "ByCountDesc")
    IN  [i \in 1..Len(sorted) |-> sorted[i][1]]

collectTopCategoriesFromHistory(history) ==
    LET trimmed == [i \in 1..Len(history) |->
                       IF history[i].category = NULL THEN NULL
                       ELSE trim(history[i].category)]
        counted == SelectSeq(trimmed, Truthy)
        counts == CountEntries(counted)
        sorted == sort(SelectSeq(counts, LAMBDA e : e[2] >= 2), "ByCountDesc")
    IN  [i \in 1..Len(sorted) |-> sorted[i][1]]

\* fetchPopularBookIds, from the sample its query returned
fetchPopularBookIds(borrowings) ==
    LET ids == [i \in 1..Len(borrowings) |-> borrowings[i].bookId]
        counts == CountEntries(SelectSeq(ids, LAMBDA id : id # ""))
        sorted == sort(counts, "ByCountDesc")
    IN  [i \in 1..Len(sorted) |-> sorted[i][1]]

\* fetchBooksByIds, from the rows its query returned: the order of bookIds
fetchBooksByIds(bookIds, books) ==
    LET found == SelectSeq(bookIds,
                     LAMBDA id : \E i \in 1..Len(books) : books[i].id = id)
    IN  [k \in 1..Len(found) |->
            books[CHOOSE i \in 1..Len(books) :
                      /\ books[i].id = found[k]
                      /\ \A j \in (i + 1)..Len(books) : books[j].id # found[k]]]

\* no clause whatever the filters
orClausesOf_none(categories, department) == <<>>

\* the OR clauses fetchCandidateBooks builds from its filters
orClausesOf(categories, department) ==
    (IF Len(categories) > 0
     THEN <<[field |-> "category", values |-> categories]>> ELSE <<>>)
    \o (IF Truthy(department)
        THEN <<[field |-> "department", values |-> <<department>>]>> ELSE <<>>)

fetchCandidateBooks(categories, department, exclude, take) ==
    findBooks(exclude, orClausesOf(categories, department), take)

HasId(map, id) == \E i \in 1..Len(map) : map[i].id = id

\* candidateMap.set(candidate.id, candidate) for each candidate
SetAll(map, candidates) ==
    LET F[i \in 0..Len(candidates)] ==
            IF i = 0 THEN map
            ELSE IF HasId(F[i - 1], candidates[i].id)
                 THEN [k \in 1..Len(F[i - 1]) |->
                          IF F[i - 1][k].id = candidates[i].id
                          THEN candidates[i] ELSE F[i - 1][k]]
                 ELSE Append(F[i - 1], candidates[i])
    IN  F[Len(candidates)]

\* a later tier's record replaces the one already merged
SetAbsent_overwrite(map, candidates) == SetAll(map, candidates)

\* if (!candidateMap.has(candidate.id)) candidateMap.set(...) for each
SetAbsent(map, candidates) ==
    LET F[i \in 0..Len(candidates)] ==
            IF i = 0 THEN map
            ELSE IF HasId(F[i - 1], candidates[i].id)
                 THEN F[i - 1]
                 ELSE Append(F[i - 1], candidates[i])
    IN  F[Len(candidates)]

Reason(text, arg) == [text |-> text, arg |-> arg]

\* reasons.add(reason) on a Set
AddReason(reasons, reason) ==
    IF reason \in Range(reasons) THEN reasons ELSE Append(reasons, reason)

UNKNOWN_AUTHOR == <<"U", "n", "k", "n", "o", "w", "n", " ",
                    "a", "u", "t", "h", "o", "r">>

BASELINE_REASON == Reason("Handpicked by the library team", <<>>)

\* no base score: a candidate no signal matched keeps 0
BaseScore_none(score) == score

\* the base score of a candidate no signal matched
BaseScore(score) == IF score = 0 THEN 1 ELSE score

\* the new-arrival window without its last day
isNewArrivalOf_strict(candidate) == Abs(candidate.age) < NEW_ARRIVAL_DAYS

isNewArrivalOf(candidate) == Abs(candidate.age) <= NEW_ARRIVAL_DAYS

\* the body of the map callback of enrichCandidates
enrichCandidate(candidate, context, popularIds, derivedCategorySet) ==
    LET interest == candidate.category \in Range(context.explicitInterests)
        derived == candidate.category \in derivedCategorySet
        affiliation == /\ Truthy(context.department)
                       /\ candidate.department = context.department
        isNewArrival == isNewArrivalOf(candidate)
        isPopular == candidate.id \in popularIds
        score == (IF interest THEN 3 ELSE 0) + (IF derived THEN 2 ELSE 0)
                 + (IF affiliation THEN 2 ELSE 0)
                 + (IF isNewArrival THEN 1 ELSE 0)
                 + (IF isPopular THEN 1 ELSE 0)
        r1 == IF interest
              THEN AddReason(<<>>, Reason("Matches your interest in",
                                          candidate.category))
              ELSE <<>>
        r2 == IF derived
              THEN AddReason(r1, Reason("You often borrow titles",
                                        candidate.category))
              ELSE r1
        r3 == IF affiliation
              THEN AddReason(r2, Reason("From your department collection", <<>>))
              ELSE r2
        r4 == IF isNewArrival
              THEN AddReason(r3, Reason("New arrival this term", <<>>))
              ELSE r3
        r5 == IF isPopular
              THEN AddReason(r4, Reason("Popular with other students", <<>>))
              ELSE r4
        r6 == IF score = 0 THEN AddReason(r5, BASELINE_REASON) ELSE r5
    IN  [id |-> candidate.id,
         title |-> candidate.title,
         author |-> Coalesce(candidate.author, UNKNOWN_AUTHOR),
         category |-> candidate.category,
         department |-> candidate.department,
         availableCopies |-> candidate.availableCopies,
         score |-> BaseScore(score),
         reasons |-> r6,
         isNewArrival |-> isNewArrival,
         isPopular |-> isPopular]

enrichCandidates(candidates, context, popularIds, derivedCategorySet) ==
    [i \in 1..Len(candidates) |->
        enrichCandidate(candidates[i], context, popularIds, derivedCategorySet)]

\* enriched.sort((a, b) => ...)
rank(scored) == sort(scored, "ByScoreThenCopies")

\* ------------------------------------------------------------------------
\* The dataset bridge
\* ------------------------------------------------------------------------

FEATURED_REASON == Reason("Featured from the library catalog", <<>>)

\* `dataset-${book.id}`
DatasetId(id) == "dataset-" \o id

\* explicitInterests.map(trim, toLowerCase).filter(Boolean)
interestTokensOf(interests) ==
    SelectSeq([i \in 1..Len(interests) |-> toLowerCase(trim(interests[i]))],
              Truthy)

\* the map callback searching the title and author as they are written
scoreDatasetBook_caseSensitive(book, interests, department) ==
    LET interestTokens == interestTokensOf(interests)
        searchable == book.title \o <<" ">> \o book.author
        \* interestTokens.forEach((token, index) => ...)
        F[i \in 0..Len(interestTokens)] ==
            IF i = 0
            THEN [score |-> 1, reasons |-> <<>>, matchedInterest |-> NULL]
            ELSE IF includes(searchable, interestTokens[i])
                 THEN [score |-> F[i - 1].score + 3,
                       reasons |-> AddReason(F[i - 1].reasons,
                                       Reason("Matches your interest in",
                                              interests[i])),
                       matchedInterest |->
                           IF ~Truthy(F[i - 1].matchedInterest)
                           THEN interests[i]
                           ELSE F[i - 1].matchedInterest]
                 ELSE F[i - 1]
        matched == F[Len(interestTokens)]
        sameDepartment == /\ Truthy(department)
                          /\ toLowerCase(book.department) = toLowerCase(department)
        popular == book.copies >= 5
        r1 == IF sameDepartment
              THEN AddReason(matched.reasons,
                             Reason("From your department collection", <<>>))
              ELSE matched.reasons
        r2 == IF popular
              THEN AddReason(r1, Reason("Popular in the general catalog", <<>>))
              ELSE r1
    IN  [book |-> book,
         score |-> matched.score + (IF sameDepartment THEN 2 ELSE 0)
                                 + (IF popular THEN 1 ELSE 0),
         reasons |-> r2,
         matchedInterest |-> matched.matchedInterest]

\* the body of the map callback of buildDatasetFallback
scoreDatasetBook(book, interests, department) ==
    LET interestTokens == interestTokensOf(interests)
        searchable == toLowerCase(book.title \o <<" ">> \o book.author)
        \* interestTokens.forEach((token, index) => ...)
        F[i \in 0..Len(interestTokens)] ==
            IF i = 0
            THEN [score |-> 1, reasons |-> <<>>, matchedInterest |-> NULL]
            ELSE IF includes(searchable, interestTokens[i])
                 THEN [score |-> F[i - 1].score + 3,
                       reasons |-> AddReason(F[i - 1].reasons,
                                       Reason("Matches your interest in",
                                              interests[i])),
                       matchedInterest |->
                           IF ~Truthy(F[i - 1].matchedInterest)
                           THEN interests[i]
                           ELSE F[i - 1].matchedInterest]
                 ELSE F[i - 1]
        matched == F[Len(interestTokens)]
        sameDepartment == /\ Truthy(department)
                          /\ toLowerCase(book.department) = toLowerCase(department)
        popular == book.copies >= 5
        r1 == IF sameDepartment
              THEN AddReason(matched.reasons,
                             Reason("From your department collection", <<>>))
              ELSE matched.reasons
        r2 == IF popular
              THEN AddReason(r1, Reason("Popular in the general catalog", <<>>))
              ELSE r1
    IN  [book |-> book,
         score |-> matched.score + (IF sameDepartment THEN 2 ELSE 0)
                                 + (IF popular THEN 1 ELSE 0),
         reasons |-> r2,
         matchedInterest |-> matched.matchedInterest]

\* the reasons as collected, without the default
reasonsOrFeatured_asIs(reasons) == reasons

\* reasons.length ? reasons : ['Featured from the library catalog']
reasonsOrFeatured(reasons) ==
    IF Len(reasons) > 0 THEN reasons ELSE <<FEATURED_REASON>>

\* the filter inverted: only excluded books pass
datasetAllowed_inverted(book, exclude) == book.id \in exclude

\* the bridge's filter on the exclusion set
datasetAllowed(book, exclude) == book.id \notin exclude

\* buildDatasetFallback, from the books getAllBooks returned
buildDatasetFallback(books, interests, department, n, exclude) ==
    IF Len(books) = 0 THEN <<>>
    ELSE
    LET allowed == SelectSeq(books, LAMBDA book : datasetAllowed(book, exclude))
        scored == [i \in 1..Len(allowed) |->
                      scoreDatasetBook(allowed[i], interests, department)]
        sorted == slice(sort(scored, "ByScoreCopiesTitle"), n)
    IN  [i \in 1..Len(sorted) |->
            [id |-> DatasetId(sorted[i].book.id),
             title |-> sorted[i].book.title,
             author |-> IF Truthy(sorted[i].book.author)
                        THEN sorted[i].book.author ELSE UNKNOWN_AUTHOR,
             category |-> Coalesce(sorted[i].matchedInterest,
                                   sorted[i].book.department),
             department |-> sorted[i].book.department,
             availableCopies |-> Max(sorted[i].book.copies, 1),
             score |-> sorted[i].score,
             reasons |-> reasonsOrFeatured(sorted[i].reasons),
             isNewArrival |-> FALSE,
             isPopular |-> sorted[i].book.copies >= 5]]

\* ------------------------------------------------------------------------
\* getPersonalizedRecommendations
\* ------------------------------------------------------------------------

NO_INPUT == [userId |-> "", limit |-> <<>>, excludeBookIds |-> UNDEFINED]

\* no invocation has started
Fresh ==
    /\ returns = 0
    /\ input = NO_INPUT
    /\ pc = "idle"
    /\ queries = <<>>
    /\ limit = 0
    /\ user = NO_USER
    /\ activeBorrowings = <<>>
    /\ recentHistory = <<>>
    /\ pending = {}
    /\ excludeIds = {}
    /\ derivedCategories = <<>>
    /\ explicitInterests = <<>>
    /\ userDepartment = NULL
    /\ popularIdSet = <<>>
    /\ topupIds = <<>>
    /\ primaryCandidates = <<>>
    /\ fallbackBooks = <<>>
    /\ popularBooks = <<>>
    /\ candidateMap = <<>>
    /\ fallbackUsed = FALSE
    /\ enriched = <<>>
    /\ items = <<>>
    /\ fromDataset = FALSE
    /\ snapshot = <<>>
    /\ result = NO_RESULT
    /\ failed = "none"

\* no invocation of the engine, against an empty store
EngineIdle ==
    /\ userTable = {}
    /\ bookTable = <<>>
    /\ borrowingTable = <<>>
    /\ Fresh

Init ==
    /\ userTable \in {{profile} : profile \in UserProfiles}
    /\ bookTable \in {Rows(BookUniverse, picked) :
                          picked \in SUBSET (1..Len(BookUniverse))}
    /\ borrowingTable \in {Rows(BorrowingUniverse, picked) :
                               picked \in SUBSET (1..Len(BorrowingUniverse))}
    /\ Fresh
    /\ OthersIdle

\* the book collections the busy library is checked with
BusyShelves == {Rows(BookUniverse, picked) :
                   picked \in {{}, {3}, {2, 3, 4}, {1, 2, 3, 4}}}

InitBusy ==
    /\ userTable \in {{profile} : profile \in UserProfiles}
    /\ bookTable \in BusyShelves
    /\ borrowingTable = BusyBorrowings
    /\ Fresh
    /\ OthersIdle

\* const limit = input.limit ?? 6
limitOf(in) == IF in.limit = <<>> THEN DEFAULT_LIMIT ELSE in.limit[1]

\* the context object of the invocation
contextOf(interests, derived, department, fallback) ==
    [explicitInterests |-> interests,
     derivedCategories |-> derived,
     department |-> department,
     fallbackUsed |-> fallback]

Returned(its, context) ==
    [items |-> its, context |-> context, returned |-> TRUE]

\* the not-found result without the fallback mark
NOT_FOUND_RESULT_unmarked == Returned(<<>>, contextOf(<<>>, <<>>, NULL, FALSE))

\* the result for a user that does not exist
NOT_FOUND_RESULT == Returned(<<>>, contextOf(<<>>, <<>>, NULL, TRUE))

\* the invocation starts and awaits the profile
Call(in) ==
    /\ pc = "idle"
    /\ input' = in
    /\ limit' = limitOf(in)
    /\ queries' = <<"user.findUnique">>
    /\ pc' = "findUser"
    /\ UNCHANGED tiers
    /\ UNCHANGED <<others, store, returns, user, activeBorrowings, recentHistory, pending,
                   excludeIds, derivedCategories, explicitInterests,
                   userDepartment, popularIdSet, topupIds, candidateMap,
                   fallbackUsed, enriched, items, fromDataset, snapshot,
                   result, failed>>

\* the profile arrives: return at once for an unknown user, else issue the
\* two borrowing queries of the Promise.all
FindUserReturns ==
    /\ pc = "findUser"
    /\ user' = findUser(input.userId)
    /\ IF user' = NO_USER
       THEN /\ result' = NOT_FOUND_RESULT
            /\ pc' = "done"
            /\ UNCHANGED <<queries, pending>>
       ELSE /\ pending' = {"active", "history"}
            /\ queries' = queries \o <<"borrowing.findMany:active",
                                       "borrowing.findMany:history">>
            /\ pc' = "signals"
            /\ UNCHANGED result
    /\ UNCHANGED tiers
    /\ UNCHANGED <<others, store, returns, input, limit, activeBorrowings, recentHistory,
                   excludeIds, derivedCategories, explicitInterests,
                   userDepartment, popularIdSet, topupIds, candidateMap,
                   fallbackUsed, enriched, items, fromDataset, snapshot,
                   failed>>

\* Array.from(new Set(user.interests ?? [])).filter(Boolean)
explicitInterestsOf(u) ==
    SelectSeq(ArrayFromSet(CoalesceArray(u.interests, <<>>)), Truthy)

\* user.branch ?? user.department ?? null
userDepartmentOf(u) == Coalesce(u.branch, Coalesce(u.department, NULL))

\* both results of the Promise.all are in: the signals are computed and the
\* popularity sample is requested
SignalsJoined(active, history) ==
    /\ excludeIds' = buildExcludeSet(input, active)
    /\ derivedCategories' = collectTopCategoriesFromHistory(history)
    /\ explicitInterests' = explicitInterestsOf(user)
    /\ userDepartment' = userDepartmentOf(user)
    /\ queries' = Append(queries, "borrowing.findMany:popular")
    /\ pc' = "popular"

\* the first result to arrive resumes the invocation
allSettled_first(waiting) == TRUE

\* await Promise.all([...]) resumes when no query of the pair is pending
allSettled(waiting) == waiting = {}

SignalsWaiting ==
    UNCHANGED <<excludeIds, derivedCategories, explicitInterests,
                userDepartment, queries, pc>>

ActiveBorrowingsReturn ==
    /\ pc = "signals"
    /\ "active" \in pending
    /\ activeBorrowings' = findActiveBorrowings(user.id)
    /\ pending' = pending \ {"active"}
    /\ IF allSettled(pending')
       THEN SignalsJoined(activeBorrowings', recentHistory)
       ELSE SignalsWaiting
    /\ UNCHANGED tiers
    /\ UNCHANGED <<others, store, returns, input, limit, user, recentHistory, popularIdSet,
                   topupIds, candidateMap, fallbackUsed, enriched, items,
                   fromDataset, snapshot, result, failed>>

RecentHistoryReturn ==
    /\ pc = "signals"
    /\ "history" \in pending
    /\ recentHistory' = findRecentHistory(user.id)
    /\ pending' = pending \ {"history"}
    /\ IF allSettled(pending')
       THEN SignalsJoined(activeBorrowings, recentHistory')
       ELSE SignalsWaiting
    /\ UNCHANGED tiers
    /\ UNCHANGED <<others, store, returns, input, limit, user, activeBorrowings, popularIdSet,
                   topupIds, candidateMap, fallbackUsed, enriched, items,
                   fromDataset, snapshot, result, failed>>

\* every sampled id is popular
popularIdSetOf_all(popularBookIds) == ArrayFromSet(popularBookIds)

\* new Set(popularBookIds.slice(0, 20))
popularIdSetOf(popularBookIds) == ArrayFromSet(slice(popularBookIds, POPULAR_TOP))

\* the popularity sample arrives; the primary tier is requested
PopularReturn ==
    /\ pc = "popular"
    /\ popularIdSet' = popularIdSetOf(fetchPopularBookIds(findPopularSample))
    /\ queries' = Append(queries, "book.findMany:primary")
    /\ pc' = "primary"
    /\ UNCHANGED tiers
    /\ UNCHANGED <<others, store, returns, input, limit, user, activeBorrowings, recentHistory,
                   pending, excludeIds, derivedCategories, explicitInterests,
                   userDepartment, topupIds, candidateMap, fallbackUsed,
                   enriched, items, fromDataset, snapshot, result, failed>>

\* Array.from(new Set([...explicitInterests, ...derivedCategories]))
candidateCategoriesOf(interests, derived) == ArrayFromSet(interests \o derived)

\* a further tier also when the limit is exactly met
underLimit_inclusive(map, n) == Len(map) <= n

\* the condition under which a further tier runs
underLimit(map, n) == Len(map) < n

\* the bridge is never called
bridgeNeeded_never(its) == FALSE

\* if (!items.length)
bridgeNeeded(its) == Len(its) = 0

\* the candidates are scored, ranked and cut; an empty list calls the bridge
Score(map, fallback) ==
    /\ candidateMap' = map
    /\ fallbackUsed' = fallback
    /\ enriched' = rank(enrichCandidates(map,
                        contextOf(explicitInterests, derivedCategories,
                                  userDepartment, fallback),
                        Range(popularIdSet), Range(derivedCategories)))
    /\ items' = slice(enriched', limit)
    /\ IF bridgeNeeded(items')
       THEN /\ queries' = Append(queries, "getAllBooks")
            /\ pc' = "dataset"
            /\ UNCHANGED result
       ELSE /\ result' = Returned(items',
                             contextOf(explicitInterests, derivedCategories,
                                       userDepartment, fallback))
            /\ pc' = "done"
            /\ UNCHANGED queries

\* the primary tier arrives
PrimaryReturn ==
    /\ pc = "primary"
    /\ primaryCandidates' =
           fetchCandidateBooks(
               candidateCategoriesOf(explicitInterests, derivedCategories),
               userDepartment, excludeIds, limit * 3)
    /\ LET map == SetAll(<<>>, primaryCandidates')
       IN  IF underLimit(map, limit)
           THEN /\ fallbackUsed' = TRUE
                /\ candidateMap' = map
                /\ queries' = Append(queries, "book.findMany:fallback")
                /\ pc' = "fallback"
                /\ UNCHANGED <<enriched, items, result>>
           ELSE Score(map, FALSE)
    /\ UNCHANGED <<fallbackBooks, popularBooks>>
    /\ UNCHANGED <<others, store, returns, input, limit, user, activeBorrowings, recentHistory,
                   pending, excludeIds, derivedCategories, explicitInterests,
                   userDepartment, popularIdSet, topupIds, fromDataset,
                   snapshot, failed>>

\* the popular ids not yet candidates, excluded or not
remainingPopularIdsOf_excludedToo(popular, map, exclude, n) ==
    slice(SelectSeq(popular, LAMBDA bookId : ~HasId(map, bookId)), n * 2)

\* remainingPopularIds.slice(0, limit * 2)
remainingPopularIdsOf(popular, map, exclude, n) ==
    slice(SelectSeq(popular,
              LAMBDA bookId : ~HasId(map, bookId) /\ bookId \notin exclude),
          n * 2)

\* the broad fallback tier arrives
FallbackReturn ==
    /\ pc = "fallback"
    /\ fallbackBooks' = findBooks(excludeIds, <<>>, limit * 3)
    /\ LET map == SetAbsent(candidateMap, fallbackBooks')
           ids == remainingPopularIdsOf(popularIdSet, map, excludeIds, limit)
       IN  IF underLimit(map, limit) /\ Len(popularIdSet) > 0
           THEN IF Len(ids) = 0
                THEN \* fetchBooksByIds([]) returns [] without a query
                     /\ Score(map, TRUE)
                     /\ UNCHANGED topupIds
                ELSE /\ candidateMap' = map
                     /\ topupIds' = ids
                     /\ queries' = Append(queries, "book.findMany:topup")
                     /\ pc' = "topup"
                     /\ UNCHANGED <<fallbackUsed, enriched, items, result>>
           ELSE /\ Score(map, TRUE)
                /\ UNCHANGED topupIds
    /\ UNCHANGED <<primaryCandidates, popularBooks>>
    /\ UNCHANGED <<others, store, returns, input, limit, user, activeBorrowings, recentHistory,
                   pending, excludeIds, derivedCategories, explicitInterests,
                   userDepartment, popularIdSet, fromDataset, snapshot, failed>>

\* the popular books of the top-up arrive
TopupReturn ==
    /\ pc = "topup"
    /\ popularBooks' = fetchBooksByIds(topupIds, findBooksIn(topupIds))
    /\ Score(SetAbsent(candidateMap, popularBooks'), TRUE)
    /\ UNCHANGED <<primaryCandidates, fallbackBooks>>
    /\ UNCHANGED <<others, store, returns, input, limit, user, activeBorrowings, recentHistory,
                   pending, excludeIds, derivedCategories, explicitInterests,
                   userDepartment, popularIdSet, topupIds, fromDataset,
                   snapshot, failed>>

\* the snapshots getAllBooks may return
Snapshots == {Rows(DatasetUniverse, picked) :
                  picked \in SUBSET (1..Len(DatasetUniverse))}

\* getAllBooks returns: the bridge's list replaces items when it is not empty
SnapshotReturn(books) ==
    /\ pc = "dataset"
    /\ snapshot' = books
    /\ LET datasetFallback ==
               buildDatasetFallback(books, explicitInterests, userDepartment,
                                    limit, excludeIds)
       IN  IF Len(datasetFallback) > 0
           THEN /\ items' = datasetFallback
                /\ fallbackUsed' = TRUE
                /\ fromDataset' = TRUE
           ELSE UNCHANGED <<items, fallbackUsed, fromDataset>>
    /\ result' = Returned(items',
                     contextOf(explicitInterests, derivedCategories,
                               userDepartment, fallbackUsed'))
    /\ pc' = "done"
    /\ UNCHANGED tiers
    /\ UNCHANGED <<others, store, returns, input, queries, limit, user, activeBorrowings,
                   recentHistory, pending, excludeIds, derivedCategories,
                   explicitInterests, userDepartment, popularIdSet, topupIds,
                   candidateMap, enriched, failed>>

\* getAllBooks throws and nothing catches it
SnapshotFails_propagates ==
    /\ pc = "dataset"
    /\ snapshot' = NO_SNAPSHOT
    /\ failed' = "snapshot"
    /\ pc' = "threw"
    /\ UNCHANGED tiers
    /\ UNCHANGED <<others, store, returns, input, queries, limit, user, activeBorrowings,
                   recentHistory, pending, excludeIds, derivedCategories,
                   explicitInterests, userDepartment, popularIdSet, topupIds,
                   candidateMap, fallbackUsed, enriched, items, fromDataset,
                   result>>

\* getAllBooks throws: the bridge catches, logs and returns []
SnapshotFails ==
    /\ pc = "dataset"
    /\ snapshot' = NO_SNAPSHOT
    /\ result' = Returned(items,
                     contextOf(explicitInterests, derivedCategories,
                               userDepartment, fallbackUsed))
    /\ pc' = "done"
    /\ UNCHANGED tiers
    /\ UNCHANGED <<others, store, returns, input, queries, limit, user, activeBorrowings,
                   recentHistory, pending, excludeIds, derivedCategories,
                   explicitInterests, userDepartment, popularIdSet, topupIds,
                   candidateMap, fallbackUsed, enriched, items, fromDataset,
                   failed>>

\* another request of the application writes the book collection between two
\* of the invocation's reads of it: a copy of a book is handed in
CopyReturned(bookId) ==
    /\ pc \in {"fallback", "topup"}
    /\ returns < MaxReturns
    /\ \E k \in 1..Len(bookTable) : bookTable[k].id = bookId
    /\ bookTable' = [k \in 1..Len(bookTable) |->
                        IF bookTable[k].id = bookId
                        THEN [bookTable[k] EXCEPT !.availableCopies = @ + 1]
                        ELSE bookTable[k]]
    /\ returns' = returns + 1
    /\ UNCHANGED <<others, userTable, borrowingTable, input, pc, queries, locals,
                   result, failed>>

\* the awaits on the store, and the read each one waits for
StoreReads ==
    [findUser |-> {"user"}, signals |-> {"active", "history"},
     popular |-> {"popular"}, primary |-> {"primary"},
     fallback |-> {"fallback"}, topup |-> {"topup"}]

\* a read of the store rejects: no await of the engine is inside a try, so
\* the rejection leaves getPersonalizedRecommendations
QueryFails(read) ==
    /\ pc \in DOMAIN StoreReads
    /\ read \in StoreReads[pc]
    /\ pc = "signals" => read \in pending
    /\ failed' = read
    /\ pc' = "threw"
    /\ UNCHANGED <<others, store, returns, input, queries, locals, result>>

Next ==
    \/ \E userId \in UserIds, lim \in Limits, excl \in ExcludeLists :
           Call([userId |-> userId, limit |-> lim, excludeBookIds |-> excl])
    \/ FindUserReturns
    \/ ActiveBorrowingsReturn
    \/ RecentHistoryReturn
    \/ PopularReturn
    \/ PrimaryReturn
    \/ FallbackReturn
    \/ TopupReturn
    \/ \E books \in Snapshots : SnapshotReturn(books)
    \/ SnapshotFails
    \/ \E bookId \in {"b1", "b2", "b3", "b4"} : CopyReturned(bookId)
    \/ \E read \in {"user", "active", "history", "popular", "primary",
                    "fallback", "topup"} : QueryFails(read)

Spec == Init /\ [][Next]_vars

\* the same engine against the busy library
SpecBusy == InitBusy /\ [][Next]_vars

\* ------------------------------------------------------------------------
\* Properties
\* ------------------------------------------------------------------------

\* the invocation returned for a user that exists
ReturnedForUser == result.returned /\ user # NO_USER

\* the invocation returned the scored list of tiers 1-3
ScoredPath == ReturnedForUser /\ Len(enriched) > 0

\* the ids the caller excluded and the ids of the user's active borrowings
CallerExcluded == Range(CoalesceIds(input.excludeBookIds, <<>>))

ActivelyBorrowed ==
    {borrowingTable[i].bookId : i \in {j \in 1..Len(borrowingTable) :
        /\ borrowingTable[j].userId = input.userId
        /\ borrowingTable[j].status \in {"BORROWED", "OVERDUE", "RENEWED"}}}

ItemIds == {result.items[i].id : i \in 1..Len(result.items)}

\* the limit the caller asked for: 6 when omitted
RequestedLimit == IF input.limit = <<>> THEN 6 ELSE input.limit[1]

NoDuplicates(s) == \A i, j \in 1..Len(s) : s[i] = s[j] => i = j

\* C1: a returned list never has more than limit items, on the scored path
\* and on the dataset bridge
C1_AtMostLimit ==
    result.returned => Len(result.items) <= RequestedLimit

\* C1 witness: more candidates than limit were scored and exactly limit returned
C1_Witness ==
    /\ result.returned
    /\ Len(enriched) > RequestedLimit
    /\ Len(result.items) = RequestedLimit

\* C2: no returned id is an id the caller excluded or the id of a book of an
\* active borrowing of the user
C2_NoExcludedId ==
    result.returned => ItemIds \cap (CallerExcluded \cup ActivelyBorrowed) = {}

\* C3: a failed non-critical read never rejects the invocation
C3_NonCriticalReadDegrades ==
    pc = "threw" => failed = "user"

\* C4: for an unknown user the result is empty with fallbackUsed = true, and
\* nothing is read after the profile lookup
C4_UnknownUser ==
    (/\ pc \notin {"idle", "findUser"}
     /\ failed # "user"
     /\ \A u \in userTable : u.id # input.userId)
    => /\ pc = "done"
       /\ result.returned
       /\ result.items = <<>>
       /\ result.context = [explicitInterests |-> <<>>,
                            derivedCategories |-> <<>>,
                            department |-> NULL,
                            fallbackUsed |-> TRUE]
       /\ queries = <<"user.findUnique">>

\* C4 witness: the invocation returned for a user id the store does not hold
C4_Witness ==
    /\ pc = "done"
    /\ input.userId = "u0"
    /\ \A u \in userTable : u.id # "u0"

\* C5: every returned recommendation has score >= 1
C5_ScoreAtLeastOne ==
    result.returned => \A i \in 1..Len(result.items) : result.items[i].score >= 1

\* C5 witness: a candidate no signal matched is returned from the scored path
C5_Witness ==
    /\ ScoredPath
    /\ \E i \in 1..Len(result.items) :
          /\ result.items[i].score = 1
          /\ result.items[i].category \notin Range(explicitInterests)
          /\ result.items[i].category \notin Range(derivedCategories)
          /\ result.items[i].department # userDepartment
          /\ ~result.items[i].isNewArrival
          /\ ~result.items[i].isPopular

\* C6: the reasons of every returned recommendation are non-empty and
\* pairwise different
C6_ReasonsDistinctNonEmpty ==
    result.returned =>
        \A i \in 1..Len(result.items) :
            /\ Len(result.items[i].reasons) >= 1
            /\ NoDuplicates(result.items[i].reasons)

\* C6 witness: the bridge returns an entry no signal matched next to an entry
\* with several reasons
C6_Witness ==
    /\ result.returned
    /\ \E i, j \in 1..Len(result.items) :
          /\ \E b \in Range(snapshot) : result.items[i].id = "dataset-" \o b.id
          /\ Len(result.items[i].reasons) >= 2
          /\ \E b \in Range(snapshot) :
                /\ result.items[j].id = "dataset-" \o b.id
                /\ b.copies < 5
                /\ result.items[j].score = 1

\* the row of the book collection a scored item was made from
RowOf(item) ==
    bookTable[CHOOSE i \in 1..Len(bookTable) : bookTable[i].id = item.id]

\* the signals of the scoring table that hold of a returned item
SignalsOf(item) ==
    (IF item.category \in Range(result.context.explicitInterests)
     THEN {"interest"} ELSE {})
    \cup (IF item.category \in Range(result.context.derivedCategories)
          THEN {"derived"} ELSE {})
    \cup (IF item.department = result.context.department
          THEN {"affiliation"} ELSE {})
    \cup (IF RowOf(item).age \in (-60)..60 THEN {"new"} ELSE {})
    \cup (IF item.id \in Range(popularIdSet) THEN {"popular"} ELSE {})

WeightOf(signal) ==
    CASE signal = "interest" -> 3
      [] signal = "derived" -> 2
      [] signal = "affiliation" -> 2
      [] signal = "new" -> 1
      [] signal = "popular" -> 1

ReasonOf(signal, item) ==
    CASE signal = "interest" ->
             [text |-> "Matches your interest in", arg |-> item.category]
      [] signal = "derived" ->
             [text |-> "You often borrow titles", arg |-> item.category]
      [] signal = "affiliation" ->
             [text |-> "From your department collection", arg |-> <<>>]
      [] signal = "new" ->
             [text |-> "New arrival this term", arg |-> <<>>]
      [] signal = "popular" ->
             [text |-> "Popular with other students", arg |-> <<>>]

Handpicked == [text |-> "Handpicked by the library team", arg |-> <<>>]

WeightSum(signals) ==
    (IF "interest" \in signals THEN 3 ELSE 0)
    + (IF "derived" \in signals THEN 2 ELSE 0)
    + (IF "affiliation" \in signals THEN 2 ELSE 0)
    + (IF "new" \in signals THEN 1 ELSE 0)
    + (IF "popular" \in signals THEN 1 ELSE 0)

\* C7: on the scored path the score is the sum of the weights of the matched
\* signals (3 interest, 2 derived, 2 affiliation, 1 new, 1 popular) with one
\* reason per matched signal; with no signal the score is 1 and the only
\* reason is the baseline, which never joins another reason
C7_ScoreIsWeightedSum ==
    ScoredPath =>
        \A i \in 1..Len(result.items) :
            LET item == result.items[i]
                signals == SignalsOf(item)
            IN  /\ NoDuplicates(item.reasons)
                /\ IF signals = {}
                   THEN item.score = 1 /\ item.reasons = <<Handpicked>>
                   ELSE /\ item.score = WeightSum(signals)
                        /\ Range(item.reasons) =
                               {ReasonOf(signal, item) : signal \in signals}
                /\ Handpicked \in Range(item.reasons) => Len(item.reasons) = 1

\* C7 witness: a candidate matching all five signals is returned with score 9
\* and 5 reasons
C7_Witness ==
    /\ ScoredPath
    /\ \E i \in 1..Len(result.items) :
          /\ SignalsOf(result.items[i]) =
                 {"interest", "derived", "affiliation", "new", "popular"}
          /\ result.items[i].score = 9
          /\ Len(result.items[i].reasons) = 5

\* a comes no later than b in the ranking: higher score, or the same score
\* and at least as many available copies
RanksNoLater(a, b) ==
    \/ a.score > b.score
    \/ a.score = b.score /\ a.availableCopies >= b.availableCopies

\* the scored candidates that were not returned
LeftOut ==
    {enriched[k] : k \in {j \in 1..Len(enriched) : enriched[j].id \notin ItemIds}}

\* C8: on the scored path the items are in score-descending order, equal
\* scores in availableCopies-descending order, and they are the first limit
\* entries of that order over all merged candidates
C8_RankedPrefix ==
    ScoredPath =>
        /\ \A i, j \in 1..Len(result.items) :
               i < j => RanksNoLater(result.items[i], result.items[j])
        /\ Len(result.items) =
               (IF Len(candidateMap) < RequestedLimit
                THEN Len(candidateMap) ELSE RequestedLimit)
        /\ ItemIds \subseteq {candidateMap[k].id : k \in 1..Len(candidateMap)}
        /\ \A out \in LeftOut : \A i \in 1..Len(result.items) :
               /\ RanksNoLater(result.items[i], out)
               /\ out.score <= result.items[i].score

\* C8 witness: candidates were cut, and two returned items of equal score are
\* ordered by copies against their retrieval order
C8_Witness ==
    /\ ScoredPath
    /\ LeftOut # {}
    /\ \E i, j \in 1..Len(result.items) :
          /\ i < j
          /\ result.items[i].score = result.items[j].score
          /\ result.items[i].availableCopies > result.items[j].availableCopies
          /\ \E k, m \in 1..Len(candidateMap) :
                /\ m < k
                /\ candidateMap[k].id = result.items[i].id
                /\ candidateMap[m].id = result.items[j].id

\* the number of distinct candidates the primary tier returned
PrimaryReturned ==
    Cardinality({primaryCandidates[i].id : i \in 1..Len(primaryCandidates)})

FallbackIssued == "book.findMany:fallback" \in Range(queries)

\* C9: the broad fallback query is issued iff the primary tier returned fewer
\* than limit distinct candidates, and context.fallbackUsed says so
C9_FallbackIffUnderLimit ==
    /\ pc \in {"idle", "findUser", "signals", "popular", "primary"}
           => ~FallbackIssued
    /\ (user # NO_USER /\ (pc \in {"fallback", "topup", "dataset", "done"}
                             \/ failed \in {"fallback", "topup"}))
           => (FallbackIssued <=> PrimaryReturned < RequestedLimit)
    /\ ReturnedForUser
           => (result.context.fallbackUsed <=> PrimaryReturned < RequestedLimit)

\* C9 witness: limit 6, the primary tier yields 2 candidates, the fallback
\* tier ran and fallbackUsed is true
C9_Witness ==
    /\ ReturnedForUser
    /\ RequestedLimit = 6
    /\ PrimaryReturned = 2
    /\ FallbackIssued
    /\ result.context.fallbackUsed

\* C9 witness of the other side: the primary tier filled the limit
C9_WitnessNoFallback ==
    /\ ReturnedForUser
    /\ PrimaryReturned >= RequestedLimit
    /\ ~FallbackIssued
    /\ ~result.context.fallbackUsed

\* the snapshot was read, and an entry's title and author contain an interest
Matches(book) ==
    \E k \in 1..Len(explicitInterests) :
        includes(toLowerCase(book.title \o <<" ">> \o book.author),
                 toLowerCase(explicitInterests[k]))

SnapshotRead == pc = "done" /\ snapshot # NO_SNAPSHOT /\ "getAllBooks" \in Range(queries)

FromBridge ==
    /\ Len(result.items) > 0
    /\ \A i \in 1..Len(result.items) :
           \E b \in Range(snapshot) : result.items[i].id = "dataset-" \o b.id
    /\ result.context.fallbackUsed

\* C10 as stated: tiers 1-3 yield nothing and the snapshot has an entry
\* matching an interest, so the bridge's list is returned, non-empty
C10_BridgeNonEmpty_Original ==
    (/\ ReturnedForUser
     /\ Len(enriched) = 0
     /\ SnapshotRead
     /\ \E b \in Range(snapshot) : Matches(b))
    => FromBridge

\* C10 amended: tiers 1-3 yield nothing and the snapshot has an entry
\* matching an interest whose id is not in the exclusion set, so the bridge's
\* list is returned, non-empty, with fallbackUsed = true
C10_BridgeNonEmpty ==
    (/\ ReturnedForUser
     /\ Len(enriched) = 0
     /\ SnapshotRead
     /\ \E b \in Range(snapshot) :
            Matches(b) /\ b.id \notin (CallerExcluded \cup ActivelyBorrowed))
    => FromBridge

\* C10 witness: nothing was scored, a matching entry that is not excluded is
\* in the snapshot next to an excluded one, and the bridge's list is returned
C10_Witness ==
    /\ ReturnedForUser
    /\ Len(enriched) = 0
    /\ SnapshotRead
    /\ \E b \in Range(snapshot) :
           Matches(b) /\ b.id \notin (CallerExcluded \cup ActivelyBorrowed)
    /\ \E b \in Range(snapshot) : b.id \in CallerExcluded
    /\ FromBridge

\* C11: when the snapshot cannot be loaded the bridge's failure stays inside:
\* the invocation returns items = [] with the context computed so far, whose
\* fallbackUsed is true
C11_SnapshotFailureAbsorbed ==
    /\ pc = "threw" => "getAllBooks" \notin Range(queries)
    /\ snapshot = NO_SNAPSHOT =>
           /\ pc = "done"
           /\ failed = "none"
           /\ result.returned
           /\ result.items = <<>>
           /\ result.context = [explicitInterests |-> explicitInterests,
                                derivedCategories |-> derivedCategories,
                                department |-> userDepartment,
                                fallbackUsed |-> TRUE]

\* C11 witness: the bridge ran for a user with interests and an affiliation,
\* getAllBooks threw, and the invocation returned
C11_Witness ==
    /\ pc = "done"
    /\ "getAllBooks" \in Range(queries)
    /\ snapshot = NO_SNAPSHOT
    /\ result.returned
    /\ Len(result.context.explicitInterests) > 0
    /\ result.context.department # NULL

\* the invocation returned the list of the dataset bridge
BridgePath ==
    /\ ReturnedForUser
    /\ SnapshotRead
    /\ Len(result.items) > 0

\* the position in the snapshot of the entry a bridge item was made from
SnapshotIndex(item) ==
    CHOOSE k \in 1..Len(snapshot) : "dataset-" \o snapshot[k].id = item.id

\* a comes strictly before b in the bridge's order: higher score, then more
\* copies in the snapshot, then the smaller title, then the earlier entry
BridgeBefore(aScore, aEntry, aIndex, bScore, bEntry, bIndex) ==
    \/ aScore > bScore
    \/ /\ aScore = bScore
       /\ \/ aEntry.copies > bEntry.copies
          \/ /\ aEntry.copies = bEntry.copies
             /\ \/ localeCompare(aEntry.title, bEntry.title) < 0
                \/ /\ localeCompare(aEntry.title, bEntry.title) = 0
                   /\ aIndex < bIndex

\* the snapshot entries the bridge may return and did not
BridgeLeftOut ==
    {k \in 1..Len(snapshot) :
        /\ snapshot[k].id \notin excludeIds
        /\ \A i \in 1..Len(result.items) :
               result.items[i].id # "dataset-" \o snapshot[k].id}

\* C12: the bridge's items are in score-descending, then copies-descending,
\* then title-ascending order, they are the first limit entries of that
\* order, and the order leaves no choice: entries equal in all three keep
\* their snapshot order, so equal inputs give the identical list
C12_BridgeOrderDeterministic ==
    BridgePath =>
        /\ \A i, j \in 1..Len(result.items) :
               i < j =>
                   BridgeBefore(result.items[i].score,
                                snapshot[SnapshotIndex(result.items[i])],
                                SnapshotIndex(result.items[i]),
                                result.items[j].score,
                                snapshot[SnapshotIndex(result.items[j])],
                                SnapshotIndex(result.items[j]))
        /\ BridgeLeftOut # {} => Len(result.items) = RequestedLimit
        /\ \A k \in BridgeLeftOut : \A i \in 1..Len(result.items) :
               BridgeBefore(result.items[i].score,
                            snapshot[SnapshotIndex(result.items[i])],
                            SnapshotIndex(result.items[i]),
                            scoreDatasetBook(snapshot[k], explicitInterests,
                                             userDepartment).score,
                            snapshot[k], k)

\* C12 witness: two returned entries of equal score and copies stand in title
\* order against their snapshot order, and an entry was cut
C12_Witness ==
    /\ BridgePath
    /\ BridgeLeftOut # {}
    /\ \E i, j \in 1..Len(result.items) :
          /\ i < j
          /\ result.items[i].score = result.items[j].score
          /\ snapshot[SnapshotIndex(result.items[i])].copies
                 = snapshot[SnapshotIndex(result.items[j])].copies
          /\ localeCompare(result.items[i].title, result.items[j].title) < 0
          /\ SnapshotIndex(result.items[i]) > SnapshotIndex(result.items[j])

\* the primary tier has returned in this invocation
PrimaryArrived == pc \in {"fallback", "topup", "dataset", "done"} /\ user # NO_USER

\* the candidate's category is an interest or a derived category of the user,
\* or its department is the user's affiliation
MatchesUser(candidate) ==
    \/ candidate.category \in Range(explicitInterests) \cup Range(derivedCategories)
    \/ userDepartment # NULL /\ candidate.department = userDepartment

\* the user has an interest, a derived category or a non-empty affiliation
HasSignal ==
    \/ Len(explicitInterests) > 0
    \/ Len(derivedCategories) > 0
    \/ userDepartment # NULL /\ userDepartment # Empty

\* C13 as stated: every candidate of the primary tier is available, not
\* excluded and matches the user, for every user
C13_PrimaryMatchesUser_Original ==
    PrimaryArrived =>
        \A i \in 1..Len(primaryCandidates) :
            /\ primaryCandidates[i].availableCopies > 0
            /\ primaryCandidates[i].id \notin excludeIds
            /\ MatchesUser(primaryCandidates[i])

\* C13: every candidate of the primary tier is available and not excluded,
\* and it matches the user when the user has an interest, a derived category
\* or a non-empty affiliation
C13_PrimaryMatchesUser ==
    PrimaryArrived =>
        \A i \in 1..Len(primaryCandidates) :
            /\ primaryCandidates[i].availableCopies > 0
            /\ primaryCandidates[i].id \notin excludeIds
            /\ HasSignal => MatchesUser(primaryCandidates[i])

\* C13 witness: for a user with signals the primary tier returned a book
\* matched through its category and a book matched through its department
\* alone, while the store holds an available book that matches neither
C13_Witness ==
    /\ PrimaryArrived
    /\ HasSignal
    /\ \E i, j \in 1..Len(primaryCandidates) :
          /\ primaryCandidates[i].category \in Range(explicitInterests)
          /\ primaryCandidates[j].category
                 \notin Range(explicitInterests) \cup Range(derivedCategories)
    /\ \E k \in 1..Len(bookTable) :
          /\ bookTable[k].availableCopies > 0
          /\ bookTable[k].id \notin excludeIds
          /\ ~MatchesUser(bookTable[k])

\* C14: every returned recommendation, from a tier or from the dataset
\* bridge, has at least one available copy
C14_NoZeroAvailability ==
    result.returned =>
        \A i \in 1..Len(result.items) : result.items[i].availableCopies >= 1

\* C15: the catalog snapshot is read only for an empty scored list, every
\* invocation that returns with an empty scored list has read it, and a
\* non-empty scored list is returned as it is, cut at the limit
C15_BridgeIffScoredEmpty ==
    /\ "getAllBooks" \in Range(queries) => user # NO_USER /\ Len(enriched) = 0
    /\ ReturnedForUser /\ Len(enriched) = 0 => "getAllBooks" \in Range(queries)
    /\ ScoredPath =>
           /\ Len(result.items) = IF Len(enriched) < RequestedLimit
                                  THEN Len(enriched) ELSE RequestedLimit
           /\ \A i \in 1..Len(result.items) :
                  /\ result.items[i] = enriched[i]
                  /\ \E k \in 1..Len(bookTable) :
                         bookTable[k].id = result.items[i].id
           /\ snapshot = <<>>

\* C15 witness: an invocation whose tiers found nothing returned the
\* bridge's entries
C15_Witness ==
    /\ ReturnedForUser
    /\ Len(enriched) = 0
    /\ "getAllBooks" \in Range(queries)
    /\ Len(bookTable) > 0
    /\ Len(result.items) > 0
    /\ \A i \in 1..Len(result.items) :
           \E k \in 1..Len(snapshot) :
               result.items[i].id = "dataset-" \o snapshot[k].id

\* an invocation returned its non-empty scored list, cut, without the bridge
C15_WitnessScored ==
    /\ ScoredPath
    /\ Len(enriched) > RequestedLimit
    /\ "getAllBooks" \notin Range(queries)

\* the ids a tier returned
IdsOf(books) == {books[i].id : i \in 1..Len(books)}

\* the record with the id in a tier's result
RecordIn(books, id) == books[CHOOSE i \in 1..Len(books) : books[i].id = id]

\* the record of the earliest tier that returned the id
EarliestRecord(id) ==
    IF id \in IdsOf(primaryCandidates) THEN RecordIn(primaryCandidates, id)
    ELSE IF id \in IdsOf(fallbackBooks) THEN RecordIn(fallbackBooks, id)
    ELSE RecordIn(popularBooks, id)

\* C16: the scored candidates are the ids the tiers returned, each once and
\* each with the record of the earliest tier that returned it, and the ids
\* of the returned items are pairwise distinct
C16_FirstTierWins ==
    ScoredPath =>
        /\ {enriched[k].id : k \in 1..Len(enriched)}
               = IdsOf(primaryCandidates) \cup IdsOf(fallbackBooks)
                     \cup IdsOf(popularBooks)
        /\ \A k \in 1..Len(enriched) :
               /\ enriched[k].availableCopies
                      = EarliestRecord(enriched[k].id).availableCopies
               /\ enriched[k].title = EarliestRecord(enriched[k].id).title
               /\ enriched[k].category = EarliestRecord(enriched[k].id).category
               /\ enriched[k].department
                      = EarliestRecord(enriched[k].id).department
        /\ NoDuplicates([k \in 1..Len(enriched) |-> enriched[k].id])
        /\ NoDuplicates([i \in 1..Len(result.items) |-> result.items[i].id])

\* C16 witness: a returned item's id came from the primary tier and again
\* from the fallback tier, with a different record the second time
C16_Witness ==
    /\ ScoredPath
    /\ \E i \in 1..Len(result.items) :
          /\ result.items[i].id \in IdsOf(primaryCandidates)
          /\ result.items[i].id \in IdsOf(fallbackBooks)
          /\ RecordIn(primaryCandidates, result.items[i].id)
                 # RecordIn(fallbackBooks, result.items[i].id)

\* the rows of the borrowing collection that belong to the caller's user
UserRows == {i \in 1..Len(borrowingTable) :
                borrowingTable[i].userId = input.userId}

\* the place of each of the user's rows in the most-recent-first history
Recency ==
    [i \in UserRows |->
        1 + Cardinality({j \in UserRows :
                \/ borrowingTable[j].daysAgo < borrowingTable[i].daysAgo
                \/ /\ borrowingTable[j].daysAgo = borrowingTable[i].daysAgo
                   /\ j < i})]

\* the user's 40 most recent rows
Sampled == {i \in UserRows : Recency[i] <= 40}

\* the category name a row contributes: the trimmed category of its book,
\* nothing when the book is gone or the name is blank
CategoryAt(i) ==
    LET rows == {k \in 1..Len(bookTable) :
                    bookTable[k].id = borrowingTable[i].bookId}
    IN  IF rows = {} THEN <<>>
        ELSE trim(bookTable[CHOOSE k \in rows : TRUE].category)

Occurrences(category) ==
    Cardinality({i \in Sampled : CategoryAt(i) = category})

FirstSeen(category) ==
    CHOOSE p \in 1..40 :
        /\ \E i \in Sampled : Recency[i] = p /\ CategoryAt(i) = category
        /\ \A i \in Sampled : CategoryAt(i) = category => Recency[i] >= p

\* the list holds the non-empty category names occurring at least twice in
\* the user's 40 most recent borrowings, each once, by descending count and,
\* for equal counts, in order of first occurrence
IsDerivedFromHistory(derived) ==
    /\ Range(derived) = {c \in {CategoryAt(i) : i \in Sampled} :
                            c # <<>> /\ Occurrences(c) >= 2}
    /\ NoDuplicates(derived)
    /\ \A a, b \in 1..Len(derived) :
           a < b =>
               \/ Occurrences(derived[a]) > Occurrences(derived[b])
               \/ /\ Occurrences(derived[a]) = Occurrences(derived[b])
                  /\ FirstSeen(derived[a]) < FirstSeen(derived[b])

\* C19: the derived categories are the non-empty category names occurring at
\* least twice in the user's 40 most recent borrowings, each once, by
\* descending count and, for equal counts, in order of first occurrence; the
\* returned context carries them
C19_DerivedCategories ==
    /\ pc = "popular" => IsDerivedFromHistory(derivedCategories)
    /\ ReturnedForUser => result.context.derivedCategories = derivedCategories

\* C19 witness: of a user with 41 borrowings the context lists AI (3 of the
\* latest 40) before Ph and Ma (2 each, Ph seen first); the 41st borrowing
\* would have made Ma the first
C19_Witness ==
    /\ ReturnedForUser
    /\ Cardinality(UserRows) > 40
    /\ result.context.derivedCategories = <<AI, Ph, Ma>>
    /\ Cardinality({i \in UserRows : CategoryAt(i) = Ma}) = 3

\* a category occurring once in the latest 40 is not derived
C19_WitnessOnce ==
    /\ ReturnedForUser
    /\ \E i \in Sampled : CategoryAt(i) = AI
    /\ result.context.derivedCategories = <<Ph, Ma>>

\* the borrowings of the last 90 days
WindowRows == {i \in 1..Len(borrowingTable) : borrowingTable[i].daysAgo <= 90}

\* the place of each of them in most-recent-first order
WindowRecency ==
    [i \in WindowRows |->
        1 + Cardinality({j \in WindowRows :
                \/ borrowingTable[j].daysAgo < borrowingTable[i].daysAgo
                \/ /\ borrowingTable[j].daysAgo = borrowingTable[i].daysAgo
                   /\ j < i})]

\* the least element of a non-empty set of numbers
Least(S) == CHOOSE p \in S : \A q \in S : p <= q

\* the sample, the 300 most recent of them, told by book: how many of the
\* sampled borrowings are of the book and where the first of them stands
Popularity ==
    LET recency == WindowRecency
        sample == {i \in WindowRows : recency[i] <= 300}
        of(bookId) == {i \in sample : borrowingTable[i].bookId = bookId}
    IN  [bookId \in {borrowingTable[i].bookId : i \in sample} |->
            [count |-> Cardinality(of(bookId)),
             first |-> Least({recency[i] : i \in of(bookId)})]]

SampledIds == DOMAIN Popularity

\* a comes before b in the popularity ordering
MorePopular(popularity, a, b) ==
    \/ popularity[a].count > popularity[b].count
    \/ /\ popularity[a].count = popularity[b].count
       /\ popularity[a].first < popularity[b].first

\* C20: the popular set is the first 20 ids of the sampled borrowings' ids
\* ordered by descending borrow count, equal counts by first appearance in
\* the sample, and a scored item is marked popular iff its id is in that set
C20_PopularTop20 ==
    /\ pc = "primary" =>
           LET popularity == Popularity
               sampled == DOMAIN popularity
           IN  /\ Range(popularIdSet) \subseteq sampled
               /\ NoDuplicates(popularIdSet)
               /\ Len(popularIdSet) = IF Cardinality(sampled) < 20
                                      THEN Cardinality(sampled) ELSE 20
               /\ \A a, b \in 1..Len(popularIdSet) :
                      a < b => MorePopular(popularity, popularIdSet[a],
                                           popularIdSet[b])
               /\ \A a \in 1..Len(popularIdSet) :
                      \A other \in sampled \ Range(popularIdSet) :
                          MorePopular(popularity, popularIdSet[a], other)
    /\ ScoredPath =>
           \A k \in 1..Len(enriched) :
               enriched[k].isPopular <=> enriched[k].id \in Range(popularIdSet)

\* C20 witness: more than 20 ids were sampled and a borrowing is older than
\* 90 days; of two returned items that both were borrowed lately one is among
\* the first 20 and marked popular and the other is not
C20_Witness ==
    /\ ScoredPath
    /\ \E i, j \in 1..Len(result.items) :
          /\ result.items[i].isPopular
          /\ ~result.items[j].isPopular
          /\ LET sampled == SampledIds
             IN  /\ Cardinality(sampled) > 20
                 /\ result.items[i].id \in sampled
                 /\ result.items[j].id \in sampled
                 /\ \E k \in 1..Len(borrowingTable) :
                       /\ k \notin WindowRows
                       /\ borrowingTable[k].bookId \in sampled

TopupIssued == "book.findMany:topup" \in Range(queries)

\* the candidates after the broad fallback tier was merged
MergedAfterFallback == IdsOf(primaryCandidates) \cup IdsOf(fallbackBooks)

\* C17: the top-up lookup is issued only after the fallback tier was merged,
\* with fewer than limit candidates and a non-empty popular set; it asks for
\* at most 2*limit ids, each popular, not yet a candidate and not excluded
C17_TopupGuarded ==
    TopupIssued =>
        /\ FallbackIssued
        /\ pc \in {"topup", "dataset", "done"} \/ failed = "topup"
        /\ Cardinality(MergedAfterFallback) < RequestedLimit
        /\ Len(popularIdSet) > 0
        /\ Len(popularIdSet) <= 20
        /\ Len(topupIds) <= 2 * RequestedLimit
        /\ \A k \in 1..Len(topupIds) :
               /\ topupIds[k] \in Range(popularIdSet)
               /\ topupIds[k] \notin MergedAfterFallback
               /\ topupIds[k] \notin CallerExcluded \cup ActivelyBorrowed

\* C17 witness: the lookup asked for exactly 2*limit ids and left out a
\* popular id that is excluded and one that is beyond the 2*limit
C17_Witness ==
    /\ TopupIssued
    /\ pc = "done"
    /\ Len(topupIds) = 2 * RequestedLimit
    /\ \E id \in Range(popularIdSet) :
          id \in CallerExcluded \cup ActivelyBorrowed
    /\ \E id \in Range(popularIdSet) \ Range(topupIds) :
          /\ id \notin CallerExcluded \cup ActivelyBorrowed
          /\ id \notin MergedAfterFallback

BorrowingQueries == {"borrowing.findMany:active", "borrowing.findMany:history"}

\* both results of the pair are in and the invocation went on
Joined ==
    /\ user # NO_USER
    /\ \/ pc \in {"popular", "primary", "fallback", "topup", "dataset", "done"}
       \/ pc = "threw" /\ failed \notin {"user", "active", "history"}

\* C18: the two borrowing queries are issued together and only for a user
\* that was found; while one of them is pending nothing is derived from the
\* other; once both are in, the exclusion set and the derived categories
\* are what the store and the input determine, whichever came first
C18_SignalsJoinedBeforeUse ==
    /\ BorrowingQueries \cap Range(queries) # {} =>
           /\ BorrowingQueries \subseteq Range(queries)
           /\ user # NO_USER
    /\ pc = "signals" =>
           /\ pending # {}
           /\ excludeIds = {}
           /\ derivedCategories = <<>>
           /\ Len(queries) = 3
    /\ Joined =>
           /\ pending = {}
           /\ excludeIds = CallerExcluded \cup ActivelyBorrowed
    /\ pc = "popular" => IsDerivedFromHistory(derivedCategories)

\* C18 witness: the history arrived first, with a category borrowed twice in
\* it, and is held unused while the active borrowings are pending
C18_Witness ==
    /\ pc = "signals"
    /\ pending = {"active"}
    /\ derivedCategories = <<>>
    /\ ActivelyBorrowed # {}
    /\ \E i, j \in 1..Len(recentHistory) :
          /\ i < j
          /\ recentHistory[i].category # NULL
          /\ recentHistory[i].category = recentHistory[j].category

\* the active borrowings arrived first and the history is pending
C18_WitnessOtherOrder ==
    /\ pc = "signals"
    /\ pending = {"history"}
    /\ Len(activeBorrowings) > 0
    /\ excludeIds = {}

\* the snapshot entry a bridge item was made from
EntryOf(item) == snapshot[SnapshotIndex(item)]

\* title + ' ' + author of a snapshot entry, in lower case
SearchableOf(entry) == toLowerCase(entry.title \o <<" ">> \o entry.author)

\* the interest is not blank and occurs in the entry's title and author
OccursIn(interest, entry) ==
    /\ trim(interest) # <<>>
    /\ includes(SearchableOf(entry), toLowerCase(trim(interest)))

\* the positions of the user's explicit interests that occur in the entry
MatchedPositions(entry) ==
    {k \in 1..Len(result.context.explicitInterests) :
        OccursIn(result.context.explicitInterests[k], entry)}

\* the entry's department is the user's affiliation, whatever the case
SameDepartment(entry) ==
    /\ result.context.department # NULL
    /\ result.context.department # <<>>
    /\ toLowerCase(entry.department) = toLowerCase(result.context.department)

\* C21: a bridge item's score is 1, plus 3 for every non-blank explicit
\* interest occurring in title + ' ' + author, plus 2 for the user's
\* department, plus 1 for 5 copies or more; isPopular says 5 copies or more
C21_BridgeScore ==
    BridgePath =>
        \A i \in 1..Len(result.items) :
            /\ result.items[i].score
                   = 1 + 3 * Cardinality(MatchedPositions(EntryOf(result.items[i])))
                       + (IF SameDepartment(EntryOf(result.items[i]))
                          THEN 2 ELSE 0)
                       + (IF EntryOf(result.items[i]).copies >= 5 THEN 1 ELSE 0)
            /\ result.items[i].isPopular
                   <=> EntryOf(result.items[i]).copies >= 5

\* C21 witness: a bridge item scored 7 on an interest found in another case
\* in the author, the department in another case and 5 copies; another
\* item has fewer than 5 copies
C21_Witness ==
    /\ BridgePath
    /\ \E i, j \in 1..Len(result.items) :
          /\ result.items[i].score = 7
          /\ result.items[i].isPopular
          /\ EntryOf(result.items[i]).department # result.context.department
          /\ ~result.items[j].isPopular
          /\ MatchedPositions(EntryOf(result.items[j])) # {}
          /\ \E k \in MatchedPositions(EntryOf(result.items[j])) :
                ~includes(EntryOf(result.items[j]).title \o <<" ">>
                              \o EntryOf(result.items[j]).author,
                          result.context.explicitInterests[k])

\* the reasons of an item that name an interest
InterestReasons(item) ==
    {item.reasons[k].arg : k \in {n \in 1..Len(item.reasons) :
        item.reasons[n].text = "Matches your interest in"}}

\* C22: every interest a bridge item's reasons name is an explicit interest
\* of the user that occurs in the entry's title and author, and the item's
\* category is the first explicit interest that occurs there, or the entry's
\* department when none does
C22_BridgeReasonsNameMatches ==
    BridgePath =>
        \A i \in 1..Len(result.items) :
            /\ \A interest \in InterestReasons(result.items[i]) :
                   /\ interest \in Range(result.context.explicitInterests)
                   /\ OccursIn(interest, EntryOf(result.items[i]))
            /\ result.items[i].category
                   = IF MatchedPositions(EntryOf(result.items[i])) = {}
                     THEN EntryOf(result.items[i]).department
                     ELSE result.context.explicitInterests[
                              Least(MatchedPositions(EntryOf(result.items[i])))]

\* ------------------------------------------------------------------------
\* The catalog snapshot cache: ensureCache and getAllBooks
\* ------------------------------------------------------------------------

\* the rows of the file's content of a version; a row may lack its title
FileContents(version) ==
    [i \in 1..version |->
        [title |-> IF i = 2 THEN ""
                   ELSE "v" \o ToString(version) \o "-" \o ToString(i),
         author |-> "a", Department |-> "CE", Count |-> i - 1]]

\* loadBooksFromCsv: rows without a title are skipped, the id is the row's
\* place in the file
loadBooksFromCsv(records) ==
    LET F[index \in 0..Len(records)] ==
            IF index = 0 THEN <<>>
            ELSE IF records[index].title = "" THEN F[index - 1]
                 ELSE Append(F[index - 1],
                          [id |-> "book-" \o ToString(index),
                           title |-> records[index].title,
                           author |-> records[index].author,
                           department |-> records[index].Department,
                           copies |-> records[index].Count])
    IN  F[Len(records)]

\* !cachedMtime || (currentMtime && currentMtime > cachedMtime)
needsReload(cached, current) ==
    cached = NO_MTIME \/ (current # NO_MTIME /\ current > cached)

\* currentMtime ?? Date.now()
mtimeOrNow(current) == IF current = NO_MTIME THEN clock ELSE current

\* getAllBooks is called: ensureCache awaits getFileModifiedTime
GetAllBooks(c) ==
    /\ call[c].pc = "idle"
    /\ call' = [call EXCEPT ![c].pc = "stat", ![c].startVersion = fileVersion]
    /\ UNCHANGED <<notCache, fileVersion, fileMtime, clock, cachedBooks,
                   cachedMtime>>

\* ensureCache after the await of getFileModifiedTime: the cache is returned
\* as it is or loadBooksFromCsv is awaited
AfterStat(c, current, ok) ==
    /\ IF cachedBooks # NOT_CACHED /\ ~needsReload(cachedMtime, current)
       THEN call' = [call EXCEPT ![c].pc = "done",
                                 ![c].currentMtime = current,
                                 ![c].statOk = ok,
                                 ![c].books = cachedBooks]
       ELSE call' = [call EXCEPT ![c].pc = "readFile",
                                 ![c].currentMtime = current,
                                 ![c].statOk = ok]
    /\ UNCHANGED <<notCache, fileVersion, fileMtime, clock, cachedBooks,
                   cachedMtime>>

\* fs.stat resolves
StatReturns(c) ==
    /\ call[c].pc = "stat"
    /\ AfterStat(c, fileMtime, TRUE)

\* fs.stat rejects: getFileModifiedTime returns null
StatFails(c) ==
    /\ call[c].pc = "stat"
    /\ AfterStat(c, NO_MTIME, FALSE)

\* fs.readFile has read the file; the call stays suspended until its
\* continuation is run
ReadFileReturns(c) ==
    /\ call[c].pc = "readFile"
    /\ call' = [call EXCEPT ![c].pc = "parse",
                             ![c].csvContent = FileContents(fileVersion)]
    /\ UNCHANGED <<notCache, fileVersion, fileMtime, clock, cachedBooks,
                   cachedMtime>>

\* fs.readFile rejects: readDatasetFile throws and getAllBooks rejects
ReadFileFails(c) ==
    /\ call[c].pc = "readFile"
    /\ call' = [call EXCEPT ![c].pc = "threw"]
    /\ UNCHANGED <<notCache, fileVersion, fileMtime, clock, cachedBooks,
                   cachedMtime>>

\* the continuation of loadBooksFromCsv and of ensureCache: the cache is
\* filled and the books are returned
LoadReturns(c) ==
    /\ call[c].pc = "parse"
    /\ cachedBooks' = loadBooksFromCsv(call[c].csvContent)
    /\ cachedMtime' = mtimeOrNow(call[c].currentMtime)
    /\ call' = [call EXCEPT ![c].pc = "done", ![c].books = cachedBooks']
    /\ UNCHANGED <<notCache, fileVersion, fileMtime, clock>>

\* the file is replaced by its next content; its mtime advances
FileModified ==
    /\ fileVersion < MaxVersions
    /\ clock > fileMtime
    /\ fileVersion' = fileVersion + 1
    /\ fileMtime' = clock
    /\ UNCHANGED <<notCache, clock, cachedBooks, cachedMtime, call>>

\* time passes
Tick ==
    /\ clock < MaxClock
    /\ clock' = clock + 1
    /\ UNCHANGED <<notCache, fileVersion, fileMtime, cachedBooks, cachedMtime,
                   call>>

\* nothing was called yet: no engine call, an empty cache, a fresh limiter
InitIdle ==
    /\ EngineIdle
    /\ OthersIdle

NextCache ==
    \/ \E c \in Calls : GetAllBooks(c)
    \/ \E c \in Calls : StatReturns(c)
    \/ \E c \in Calls : StatFails(c)
    \/ \E c \in Calls : ReadFileReturns(c)
    \/ \E c \in Calls : ReadFileFails(c)
    \/ \E c \in Calls : LoadReturns(c)
    \/ FileModified
    \/ Tick

SpecCache == InitIdle /\ [][NextCache]_vars

\* C23: a getAllBooks call that started after the last modification of the
\* file and whose modification-time check succeeded returns the records of
\* the file's current content
C23_CacheNeverStale ==
    \A c \in Calls :
        (/\ call[c].pc = "done"
         /\ call[c].statOk
         /\ call[c].startVersion = fileVersion)
            => call[c].books = loadBooksFromCsv(FileContents(fileVersion))

\* ---------------------------------------------------------------------
\* The login rate limiter and authorize
\* ---------------------------------------------------------------------

\* SlidingWindowRateLimiter.evictExpired at time t
evictExpired(map, key, t) ==
    IF map[key] # NO_ENTRY /\ map[key].expiresAt <= t
    THEN [map EXCEPT ![key] = NO_ENTRY]
    ELSE map

\* SlidingWindowRateLimiter.isBlocked at time t: the answer (the eviction
\* it does first is evictExpired)
isBlocked(map, key, t) ==
    LET entry == evictExpired(map, key, t)[key]
    IN  entry # NO_ENTRY /\ entry.count >= maxAttempts

\* recordFailure pushing the end of the window on each failure
recordFailure_extends(map, key, t) ==
    [map EXCEPT ![key] =
        [count |-> IF map[key] = NO_ENTRY \/ map[key].expiresAt <= t
                   THEN 1 ELSE map[key].count + 1,
         expiresAt |-> t + windowMs]]

\* SlidingWindowRateLimiter.recordFailure at time t
recordFailure(map, key, t) ==
    IF map[key] = NO_ENTRY \/ map[key].expiresAt <= t
    THEN [map EXCEPT ![key] = [count |-> 1, expiresAt |-> t + windowMs]]
    ELSE [map EXCEPT ![key].count = @ + 1]

\* reset clearing the whole map
reset_all(map, key) == [k \in DOMAIN map |-> NO_ENTRY]

\* SlidingWindowRateLimiter.reset
reset(map, key) == [map EXCEPT ![key] = NO_ENTRY]

\* SlidingWindowRateLimiter.getRetryAfterMs at time t: the answer
getRetryAfterMs(map, key, t) ==
    LET entry == evictExpired(map, key, t)[key]
        remaining == entry.expiresAt - t
    IN  IF entry = NO_ENTRY THEN 0
        ELSE IF remaining > 0 THEN remaining ELSE 0

\* !credentials?.identifier || !credentials.password || !credentials.userType
credentialsMissing(credentials) ==
    \/ credentials.identifier = <<>>
    \/ credentials.password = ""
    \/ credentials.userType = <<>>

\* prisma.user.findFirst of authorize: by studentId for a student, by the
\* lower-cased e-mail among admins and librarians for an admin
findAuthUser(credentials) ==
    LET userType == toUpperCase(credentials.userType)
        identifier == trim(credentials.identifier)
        normalizedIdentifier == toLowerCase(identifier)
        found ==
            IF userType = STUDENT
            THEN {u \in AuthUsers : u.studentId = identifier /\ u.role = "STUDENT"}
            ELSE {u \in AuthUsers : /\ u.email = normalizedIdentifier
                                    /\ u.role \in {"ADMIN", "LIBRARIAN"}}
    IN  IF found = {} THEN NO_AUTH_USER ELSE CHOOSE u \in found : TRUE

\* authorize throws after loginRateLimiter.recordFailure(rateLimiterKey)
FailedAttempt(c, outcome) ==
    LET key == login[c].key
        recorded == recordFailure(attempts, key, now)
    IN  /\ attempts' = recorded
        /\ blockedUntil' = IF recorded[key].count >= maxAttempts
                           THEN [blockedUntil EXCEPT ![key] = recorded[key].expiresAt]
                           ELSE blockedUntil
        /\ login' = [login EXCEPT ![c].pc = "done", ![c].outcome = outcome,
                                  ![c].recorded = TRUE,
                                  ![c].user = NO_AUTH_USER]

\* authorize is called: it runs to its first await, or throws before it
\* (the call is kept in the first slot that is free)
Authorize(c, credentials) ==
    /\ login[c].pc \in {"idle", "done"}
    /\ \A earlier \in 1..(c - 1) : login[earlier].pc \notin {"idle", "done"}
    /\ started < MaxLoginCalls
    /\ started' = started + 1
    /\ IF credentialsMissing(credentials)
       THEN /\ login' = [login EXCEPT ![c] =
                            [IdleLogin EXCEPT !.pc = "done",
                                              !.credentials = credentials,
                                              !.outcome = "invalid"]]
            /\ UNCHANGED attempts
       ELSE LET userType == toUpperCase(credentials.userType)
                key == rateLimiterKeyOf(credentials)
                call0 == [IdleLogin EXCEPT !.credentials = credentials,
                                           !.key = key,
                                           !.madeBlocked = now < blockedUntil[key]]
            IN  /\ attempts' = evictExpired(attempts, key, now)
                /\ login' = [login EXCEPT ![c] =
                     IF isBlocked(attempts, key, now)
                     THEN [call0 EXCEPT !.pc = "done", !.outcome = "rateLimited",
                                        !.retryAfterMs =
                                            getRetryAfterMs(attempts, key, now)]
                     ELSE IF userType \notin {STUDENT, ADMIN}
                     THEN [call0 EXCEPT !.pc = "done", !.outcome = "invalid"]
                     ELSE [call0 EXCEPT !.pc = "lookup", !.lookedUp = TRUE]]
    /\ UNCHANGED <<notLogin, now, blockedUntil>>

\* prisma.user.findFirst resolves
LookupReturns(c) ==
    /\ login[c].pc = "lookup"
    /\ LET found == findAuthUser(login[c].credentials)
       IN  IF found = NO_AUTH_USER
           THEN FailedAttempt(c, "invalid")
           ELSE IF ~found.isActive
           THEN FailedAttempt(c, "inactive")
           ELSE /\ login' = [login EXCEPT ![c].pc = "compare", ![c].user = found]
                /\ UNCHANGED <<attempts, blockedUntil>>
    /\ UNCHANGED <<notLogin, now, started>>

\* prisma.user.findFirst rejects: authorize rejects with that error
LookupFails(c) ==
    /\ login[c].pc = "lookup"
    /\ login' = [login EXCEPT ![c].pc = "done", ![c].outcome = "error"]
    /\ UNCHANGED <<notLogin, attempts, now, started, blockedUntil>>

\* bcrypt.compare resolves
CompareReturns(c) ==
    /\ login[c].pc = "compare"
    /\ IF login[c].credentials.password # login[c].user.password
       THEN FailedAttempt(c, "invalid")
       ELSE /\ login' = [login EXCEPT ![c].pc = "update"]
            /\ UNCHANGED <<attempts, blockedUntil>>
    /\ UNCHANGED <<notLogin, now, started>>

\* the end of authorize: loginRateLimiter.reset(rateLimiterKey), return
Succeed(c) ==
    /\ attempts' = reset(attempts, login[c].key)
    /\ login' = [login EXCEPT ![c].pc = "done", ![c].outcome = "success",
                              ![c].user = NO_AUTH_USER]
    /\ UNCHANGED <<notLogin, now, started, blockedUntil>>

\* prisma.user.update resolves
UpdateReturns(c) ==
    /\ login[c].pc = "update"
    /\ Succeed(c)

\* prisma.user.update rejects: the error is logged, the login goes on
UpdateFails(c) ==
    /\ login[c].pc = "update"
    /\ Succeed(c)

\* time passes
TickLogin ==
    /\ now < MaxTicks * TickMs
    /\ now' = now + TickMs
    /\ UNCHANGED <<notLogin, attempts, login, started, blockedUntil>>

NextLogin ==
    \/ \E c \in Logins, credentials \in CredentialInputs : Authorize(c, credentials)
    \/ \E c \in Logins : LookupReturns(c)
    \/ \E c \in Logins : LookupFails(c)
    \/ \E c \in Logins : CompareReturns(c)
    \/ \E c \in Logins : UpdateReturns(c)
    \/ \E c \in Logins : UpdateFails(c)
    \/ TickLogin

SpecLogin == InitIdle /\ [][NextLogin]_vars

\* C24: a call made for a key while the window that reached 5 failures is
\* still running is rejected with the too-many-attempts error, before any
\* lookup and without recording a failure
C24_BlockedUntilExpiry ==
    \A c \in Logins :
        login[c].madeBlocked =>
            /\ login[c].pc = "done"
            /\ login[c].outcome = "rateLimited"
            /\ ~login[c].lookedUp
            /\ ~login[c].recorded

\* C25: under every interleaving of authorize calls the recorded failure
\* count of a key never exceeds maxAttempts
C25_CountAtMostMax ==
    \A key \in LimiterKeys : attempts[key].count <= maxAttempts

\* the entry of a key whose window is still running at time t
Running(entry, t) == entry # NO_ENTRY /\ entry.expiresAt > t

\* one step of the limiter, seen from a key: a running window keeps its
\* expiresAt, a window is opened only by a first failure and ends windowMs
\* after it, and what the limiter answers next respects the end of the window
WindowKept(key) ==
    LET old == attempts[key]
        new == attempts'[key]
    IN  /\ (Running(old, now) /\ new # NO_ENTRY) => new.expiresAt = old.expiresAt
        /\ (~Running(old, now) /\ new # NO_ENTRY /\ new # old) =>
               new = [count |-> 1, expiresAt |-> now + windowMs]
        /\ (new # NO_ENTRY /\ now' >= new.expiresAt) =>
               /\ ~isBlocked(attempts', key, now')
               /\ getRetryAfterMs(attempts', key, now') = 0
        /\ getRetryAfterMs(attempts', key, now') <= windowMs

\* C26: the end of a window is fixed by its first failure (first failure +
\* windowMs) and never extended; from that time on the key is not blocked
\* and getRetryAfterMs is 0; getRetryAfterMs never exceeds windowMs
C26_WindowNeverExtended ==
    [][\A key \in LimiterKeys : WindowKept(key)]_vars

\* a key reached 5 failures and its window has run out with the entry still
\* in the map, and a later failure was recorded in a window that had run on
C26_Witness ==
    \E key \in LimiterKeys, other \in LimiterKeys :
        /\ attempts[key].count >= maxAttempts
        /\ now >= attempts[key].expiresAt
        /\ attempts[other].count >= 2
        /\ attempts[other].expiresAt \in (now + 1)..(now + windowMs - 1)

\* n failures recorded for the key at time t
RECURSIVE Failures(_, _, _, _)
Failures(map, key, t, n) ==
    IF n = 0 THEN map ELSE recordFailure(Failures(map, key, t, n - 1), key, t)

\* the call that acts in this step has just returned a session user
SucceedsNow(c) == login[c].pc = "update" /\ login'[c].outcome = "success"

\* after a successful login the key has no entry and is five failures away
\* from being blocked
FreshKey(map, key, t) ==
    /\ map[key] = NO_ENTRY
    /\ ~isBlocked(map, key, t)
    /\ getRetryAfterMs(map, key, t) = 0
    /\ \A n \in 0..(maxAttempts - 1) : ~isBlocked(Failures(map, key, t, n), key, t)
    /\ isBlocked(Failures(map, key, t, maxAttempts), key, t)

\* the keys the calls acting in this step work on
ActingKeys == {login[c].key : c \in {d \in Logins : login'[d] # login[d]}}
                  \cup {login'[c].key : c \in {d \in Logins : login'[d] # login[d]}}

\* C27: a successful login leaves no entry for its own key (not blocked,
\* retry 0, five new failures needed to block it), and every limiter
\* operation on a key leaves the entries of all other keys unchanged
C27_ResetOnlyOwnKey ==
    [][/\ \A c \in Logins :
              SucceedsNow(c) => FreshKey(attempts', login[c].key, now')
       /\ \A key \in LimiterKeys :
              attempts'[key] # attempts[key] => key \in ActingKeys]_vars

\* a login succeeded for a key that had been blocked in the running window:
\* its entry is gone while another key still holds its failures
C27_Witness ==
    \E c \in Logins, other \in LimiterKeys :
        /\ login[c].outcome = "success"
        /\ now < blockedUntil[login[c].key]
        /\ attempts[login[c].key] = NO_ENTRY
        /\ other # login[c].key
        /\ attempts[other].count >= 1

\* ---------------------------------------------------------------------
\* The route middleware
\* ---------------------------------------------------------------------

\* String.prototype.startsWith
startsWith(s, prefix) ==
    /\ Len(prefix) <= Len(s)
    /\ SubSeq(s, 1, Len(prefix)) = prefix

\* config.matcher: '/admin/:path*', '/student/:path*', '/login', '/register'
matcher(pathname) ==
    \/ pathname = SlashAdmin
    \/ startsWith(pathname, SlashAdmin \o <<"/">>)
    \/ pathname = SlashStudent
    \/ startsWith(pathname, SlashStudent \o <<"/">>)
    \/ pathname \in {SlashLogin, SlashRegister}

\* authorized letting every request in
authorized_open(token, path) == TRUE

\* callbacks.authorized
authorized(token, path) ==
    IF path \in PUBLIC_ADMIN_ROUTES \/ path \in PUBLIC_STUDENT_ROUTES THEN TRUE
    ELSE IF startsWith(path, SlashAdmin) THEN token # NO_TOKEN
    ELSE IF startsWith(path, SlashStudent) THEN token # NO_TOKEN
    ELSE TRUE

next == [kind |-> "next", to |-> <<>>]

redirect(to) == [kind |-> "redirect", to |-> to]

\* the middleware sending whoever is not staff from /admin to /admin/login
middleware_toAdminLogin(token, pathname) ==
    IF token = NO_TOKEN THEN next
    ELSE IF startsWith(pathname, SlashAdmin) /\ token \notin {"ADMIN", "LIBRARIAN"}
    THEN redirect(SlashAdmin \o SlashLogin)
    ELSE IF startsWith(pathname, SlashStudent) /\ token # "STUDENT"
    THEN redirect(SlashAdmin \o SlashLogin)
    ELSE IF pathname = SlashLogin /\ token = "STUDENT"
    THEN redirect(SlashStudent)
    ELSE IF pathname = SlashAdmin \o SlashLogin /\ token \in {"ADMIN", "LIBRARIAN"}
    THEN redirect(SlashAdmin)
    ELSE next

\* function middleware(req): the response for a token (its role) and a path
middleware(token, pathname) ==
    IF token = NO_TOKEN THEN next
    ELSE IF startsWith(pathname, SlashAdmin) /\ token \notin {"ADMIN", "LIBRARIAN"}
    THEN redirect(SlashLogin)
    ELSE IF startsWith(pathname, SlashStudent) /\ token # "STUDENT"
    THEN redirect(SlashAdmin \o SlashLogin)
    ELSE IF pathname = SlashLogin /\ token = "STUDENT"
    THEN redirect(SlashStudent)
    ELSE IF pathname = SlashAdmin \o SlashLogin /\ token \in {"ADMIN", "LIBRARIAN"}
    THEN redirect(SlashAdmin)
    ELSE next

\* the browser asks for a path
Request(token, path) ==
    /\ route.status \in {"idle", "through", "signin"}
    /\ route' = [status |-> "pending", token |-> token, start |-> path,
                 path |-> path, redirects |-> 0, by |-> "none"]
    /\ UNCHANGED notRoutes

\* the path is not one of config.matcher: the middleware is not run
NotMatched ==
    /\ route.status = "pending"
    /\ ~matcher(route.path)
    /\ route' = [route EXCEPT !.status = "through", !.by = "matcher"]
    /\ UNCHANGED notRoutes

\* withAuth: authorized returned false, the request goes to the sign-in page
NotAuthorized ==
    /\ route.status = "pending"
    /\ matcher(route.path)
    /\ ~authorized(route.token, route.path)
    /\ route' = [route EXCEPT !.status = "signin", !.by = "authorized"]
    /\ UNCHANGED notRoutes

\* the middleware answers NextResponse.redirect and the browser follows it
Redirected ==
    /\ route.status = "pending"
    /\ matcher(route.path)
    /\ authorized(route.token, route.path)
    /\ middleware(route.token, route.path).kind = "redirect"
    /\ route.redirects < MaxRedirects
    /\ route' = [route EXCEPT !.path = middleware(route.token, route.path).to,
                              !.redirects = @ + 1, !.by = "middleware"]
    /\ UNCHANGED notRoutes

\* the middleware answers NextResponse.next
LetThrough ==
    /\ route.status = "pending"
    /\ matcher(route.path)
    /\ authorized(route.token, route.path)
    /\ middleware(route.token, route.path).kind = "next"
    /\ route' = [route EXCEPT !.status = "through", !.by = "middleware"]
    /\ UNCHANGED notRoutes

NextRoutes ==
    \/ \E token \in {NO_TOKEN} \cup TokenRoles, path \in RequestPaths : Request(token, path)
    \/ NotMatched
    \/ NotAuthorized
    \/ Redirected
    \/ LetThrough

SpecRoutes == InitIdle /\ [][NextRoutes]_vars

\* the request was let through by withAuth and the middleware
PassedMiddleware == route.status = "through" /\ route.by = "middleware"

\* C28: a request with a token passes the middleware on a path starting
\* with /admin only with role ADMIN or LIBRARIAN and on a path starting with
\* /student only with role STUDENT; without a token it passes on such paths
\* only on /admin/login and /admin/register
C28_RouteAccess ==
    PassedMiddleware =>
        /\ (route.token # NO_TOKEN /\ startsWith(route.path, SlashAdmin))
               => route.token \in {"ADMIN", "LIBRARIAN"}
        /\ (route.token # NO_TOKEN /\ startsWith(route.path, SlashStudent))
               => route.token = "STUDENT"
        /\ (/\ route.token = NO_TOKEN
            /\ \/ startsWith(route.path, SlashAdmin)
               \/ startsWith(route.path, SlashStudent))
               => route.path \in PUBLIC_ADMIN_ROUTES

\* a librarian who asked for a student page has ended on an admin page
C28_Witness ==
    /\ PassedMiddleware
    /\ route.token = "LIBRARIAN"
    /\ startsWith(route.start, SlashStudent)
    /\ startsWith(route.path, SlashAdmin)

\* C29: with a token of any role, from every start path, the browser is let
\* through after at most 2 redirects and is never sent to the sign-in page
C29_NoRedirectLoop ==
    route.token # NO_TOKEN =>
        /\ route.redirects <= 2
        /\ route.status # "signin"
        /\ route.status = "pending" =>
               \/ ~matcher(route.path)
               \/ middleware(route.token, route.path).kind = "next"
               \/ route.redirects < 2

\* a token with an unknown role asked for a student page and was let
\* through after two redirects
C29_Witness ==
    /\ route.status = "through"
    /\ route.token = "undefined"
    /\ matcher(route.start)
    /\ route.redirects = 2

\* ---------------------------------------------------------------------
\* The signed QR tokens
\* ---------------------------------------------------------------------

DEFAULT_TTL_MINUTES == 5

QR_TOKEN_VERSION == 1

\* the clock advances by one minute
TickQRMs == 60 * 1000

\* the characters with the codes 32..126 (the grave accent, 96, by its name)
Ascii ==
    << " ", "!", "\"", "#", "$", "%", "&", "'", "(", ")", "*", "+",
       ",", "-", ".", "/", "0", "1", "2", "3", "4", "5", "6", "7",
       "8", "9", ":", ";", "<", "=", ">", "?", "@", "A", "B", "C",
       "D", "E", "F", "G", "H", "I", "J", "K", "L", "M", "N", "O",
       "P", "Q", "R", "S", "T", "U", "V", "W", "X", "Y", "Z", "[",
       "\\", "]", "^", "_", "grave", "a", "b", "c", "d", "e", "f", "g",
       "h", "i", "j", "k", "l", "m", "n", "o", "p", "q", "r", "s",
       "t", "u", "v", "w", "x", "y", "z", "{", "|", "}", "~" >>

\* the alphabet of base64
Base64Alphabet ==
    << "A", "B", "C", "D", "E", "F", "G", "H", "I", "J", "K", "L",
       "M", "N", "O", "P", "Q", "R", "S", "T", "U", "V", "W", "X",
       "Y", "Z", "a", "b", "c", "d", "e", "f", "g", "h", "i", "j",
       "k", "l", "m", "n", "o", "p", "q", "r", "s", "t", "u", "v",
       "w", "x", "y", "z", "0", "1", "2", "3", "4", "5", "6", "7",
       "8", "9", "+", "/" >>

DecimalDigits == << "0", "1", "2", "3", "4", "5", "6", "7", "8", "9" >>

\* the position of a character in an alphabet
PositionIn(alphabet, c) == CHOOSE i \in 1..Len(alphabet) : alphabet[i] = c

\* Buffer.from(text): the bytes of a text of these characters
BufferFrom(text) == [i \in 1..Len(text) |-> 31 + PositionIn(Ascii, text[i])]

\* buffer.toString('base64'): four characters for every three bytes, '='
\* where the last group has no byte
toBase64(bytes) ==
    LET Sextet(n) == Base64Alphabet[n + 1]
        byteAt(i) == IF i <= Len(bytes) THEN bytes[i] ELSE 0
        group(g) == byteAt(3 * g + 1) * 65536 + byteAt(3 * g + 2) * 256
                        + byteAt(3 * g + 3)
        charAt(g, k) ==
            IF k = 0 THEN Sextet(group(g) \div 262144)
            ELSE IF k = 1 THEN Sextet((group(g) \div 4096) % 64)
            ELSE IF k = 2
            THEN IF 3 * g + 2 > Len(bytes) THEN "="
                 ELSE Sextet((group(g) \div 64) % 64)
            ELSE IF 3 * g + 3 > Len(bytes) THEN "="
                 ELSE Sextet(group(g) % 64)
    IN  [i \in 1..(4 * ((Len(bytes) + 2) \div 3)) |->
            charAt((i - 1) \div 4, (i - 1) % 4)]

\* Buffer.from(text, 'base64'): three bytes for every four characters, less
\* for a group that ends with '='
fromBase64(text) ==
    LET data == SelectSeq(text, LAMBDA c : c # "=")
        six(i) == IF i <= Len(data) THEN PositionIn(Base64Alphabet, data[i]) - 1
                  ELSE 0
        group(g) == six(4 * g + 1) * 262144 + six(4 * g + 2) * 4096
                        + six(4 * g + 3) * 64 + six(4 * g + 4)
        byteAt(g, k) ==
            IF k = 0 THEN group(g) \div 65536
            ELSE IF k = 1 THEN (group(g) \div 256) % 256
            ELSE group(g) % 256
    IN  [j \in 1..((Len(data) * 3) \div 4) |-> byteAt((j - 1) \div 3, (j - 1) % 3)]

\* value.replace(/c/g, by) for a character by
replaceAll(s, c, by) == [i \in 1..Len(s) |-> IF s[i] = c THEN by ELSE s[i]]

base64UrlEncode(buffer) ==
    replaceAll(replaceAll(SelectSeq(toBase64(buffer), LAMBDA c : c # "="),
                          "+", "-"), "/", "_")

base64UrlDecode(value) ==
    LET normalized == replaceAll(replaceAll(value, "-", "+"), "_", "/")
        pad == Len(normalized) % 4
        padded == IF pad # 0
                  THEN normalized \o [i \in 1..(4 - pad) |-> "="]
                  ELSE normalized
        toUtf8String(bytes) == [i \in 1..Len(bytes) |-> Ascii[bytes[i] - 31]]
    IN  toUtf8String(fromBase64(padded))

\* String.prototype.split on a one-character separator
RECURSIVE split(_, _)
split(s, separator) ==
    IF \A i \in 1..Len(s) : s[i] # separator THEN <<s>>
    ELSE LET at == CHOOSE i \in 1..Len(s) :
                       /\ s[i] = separator
                       /\ \A j \in 1..(i - 1) : s[j] # separator
         IN  <<SubSeq(s, 1, at - 1)>> \o split(SubSeq(s, at + 1, Len(s)), separator)

\* the decimal digits of a natural number
RECURSIVE digitsOf(_)
digitsOf(n) ==
    IF n < 10 THEN <<DecimalDigits[n + 1]>>
    ELSE digitsOf(n \div 10) \o <<DecimalDigits[(n % 10) + 1]>>

\* JSON.stringify of a string of letters and digits
stringText(s) == <<"\"">> \o s \o <<"\"">>

\* the names of the fields of QRTokenPayload
PayloadKeys ==
    [version |-> <<"v", "e", "r", "s", "i", "o", "n">>,
     studentId |-> <<"s", "t", "u", "d", "e", "n", "t", "I", "d">>,
     studentName |-> <<"s", "t", "u", "d", "e", "n", "t", "N", "a", "m", "e">>,
     department |-> <<"d", "e", "p", "a", "r", "t", "m", "e", "n", "t">>,
     issuedAt |-> <<"i", "s", "s", "u", "e", "d", "A", "t">>,
     expiresAt |-> <<"e", "x", "p", "i", "r", "e", "s", "A", "t">>,
     nonce |-> <<"n", "o", "n", "c", "e">>]

\* JSON.stringify(payload): "key":value for every field, null for a null
JSONstringify(payload) ==
    LET numberText(n) == IF n < 0 THEN <<"-">> \o digitsOf(0 - n) ELSE digitsOf(n)
        memberText(key, valueText) == stringText(key) \o <<":">> \o valueText
    IN  <<"{">>
        \o memberText(PayloadKeys.version, numberText(payload.version)) \o <<",">>
        \o memberText(PayloadKeys.studentId, stringText(payload.studentId)) \o <<",">>
        \o memberText(PayloadKeys.studentName, stringText(payload.studentName))
        \o <<",">>
        \o memberText(PayloadKeys.department,
                      IF payload.department = NULL THEN <<"n", "u", "l", "l">>
                      ELSE stringText(payload.department)) \o <<",">>
        \o memberText(PayloadKeys.issuedAt, numberText(payload.issuedAt)) \o <<",">>
        \o memberText(PayloadKeys.expiresAt, numberText(payload.expiresAt)) \o <<",">>
        \o memberText(PayloadKeys.nonce, stringText(payload.nonce))
        \o <<"}">>

\* the number written with these digits
RECURSIVE parseDigits(_)
parseDigits(text) ==
    IF text = <<>> THEN 0
    ELSE parseDigits(SubSeq(text, 1, Len(text) - 1)) * 10
             + (PositionIn(DecimalDigits, text[Len(text)]) - 1)

\* JSON.parse(text) as QRTokenPayload; a value is a string, null or an integer
JSONparse(text) ==
    LET parseValue(value) ==
            IF value[1] = "\"" THEN SubSeq(value, 2, Len(value) - 1)
            ELSE IF value = <<"n", "u", "l", "l">> THEN NULL
            ELSE IF value[1] = "-" THEN 0 - parseDigits(Tail(value))
            ELSE parseDigits(value)
        members == split(SubSeq(text, 2, Len(text) - 1), ",")
        pairs == [i \in 1..Len(members) |-> split(members[i], ":")]
        valueOf(key) ==
            LET i == CHOOSE j \in 1..Len(pairs) : pairs[j][1] = stringText(key)
            IN  parseValue(pairs[i][2])
    IN  [version |-> valueOf(PayloadKeys.version),
         studentId |-> valueOf(PayloadKeys.studentId),
         studentName |-> valueOf(PayloadKeys.studentName),
         department |-> valueOf(PayloadKeys.department),
         issuedAt |-> valueOf(PayloadKeys.issuedAt),
         expiresAt |-> valueOf(PayloadKeys.expiresAt),
         nonce |-> valueOf(PayloadKeys.nonce)]

\* process.env: no QR_CODE_SECRET, an ENCRYPTION_KEY, a NEXTAUTH_SECRET and
\* no QR_TOKEN_TTL_MINUTES ("" is an unset variable)
ProcessEnv == [QR_CODE_SECRET |-> "", ENCRYPTION_KEY |-> "key-1",
               NEXTAUTH_SECRET |-> "key-2", QR_TOKEN_TTL_MINUTES |-> ""]

\* getSecret: the first of the three variables that is set
getSecret ==
    IF ProcessEnv.QR_CODE_SECRET # "" THEN ProcessEnv.QR_CODE_SECRET
    ELSE IF ProcessEnv.ENCRYPTION_KEY # "" THEN ProcessEnv.ENCRYPTION_KEY
    ELSE ProcessEnv.NEXTAUTH_SECRET

\* the HMAC-SHA256 of a text under a secret, base64url-encoded: a keyed
\* digest that differs for different texts and for different secrets
hmac(secret, text) == <<"hmac", secret>> \o text

sign(payload) == hmac(getSecret, payload)

\* timingSafeCompare: equal lengths and equal bytes
timingSafeCompare(a, b) == IF Len(a) # Len(b) THEN FALSE ELSE a = b

\* the ttlMinutes argument: left out, or a number of minutes
TtlInputs ==
    {[given |-> FALSE, minutes |-> 0]}
        \cup {[given |-> TRUE, minutes |-> m] : m \in {0, 1}}

\* ttlMinutes: number = Number(process.env.QR_TOKEN_TTL_MINUTES ?? DEFAULT_TTL_MINUTES)
ttlMinutesOf(ttl) == IF ttl.given THEN ttl.minutes ELSE DEFAULT_TTL_MINUTES

\* the students tokens are made for: s1 of CE and s2 without a department
QRStudents ==
    { [studentId |-> <<"s", "1">>, studentName |-> <<"A", "l">>,
       department |-> <<"C", "E">>],
      [studentId |-> <<"s", "2">>, studentName |-> <<"B", "o">>,
       department |-> NULL] }

\* crypto.randomUUID(): a value no earlier token carries
randomUUID(earlier) == <<"n", DecimalDigits[earlier + 2]>>

\* the token of a payload: `${payloadBase64}.${signature}`
tokenOf(payload) ==
    LET payloadBase64 == base64UrlEncode(BufferFrom(JSONstringify(payload)))
    IN  payloadBase64 \o <<".">> \o sign(payloadBase64)

\* createSignedQRToken at time t
createSignedQRToken(studentId, studentName, department, ttlMinutes, t, nonce) ==
    LET issuedAt == t
        expiresAt == issuedAt + ttlMinutes * 60 * 1000
        payload == [version |-> QR_TOKEN_VERSION, studentId |-> studentId,
                    studentName |-> studentName, department |-> department,
                    issuedAt |-> issuedAt, expiresAt |-> expiresAt,
                    nonce |-> nonce]
    IN  [token |-> tokenOf(payload), payload |-> payload]

Thrown(message, decoded) ==
    [outcome |-> message, payload |-> NO_PAYLOAD, decoded |-> decoded]

\* verifySignedQRToken accepting a token only before its expiresAt
verifySignedQRToken_before(token, t) ==
    LET parts == split(token, ".")
    IN  IF Len(parts) # 2 THEN Thrown("Malformed QR token payload", FALSE)
        ELSE IF ~timingSafeCompare(parts[2], sign(parts[1]))
        THEN Thrown("Invalid QR token signature", FALSE)
        ELSE LET payload == JSONparse(base64UrlDecode(parts[1]))
             IN  IF payload.version # QR_TOKEN_VERSION
                 THEN Thrown("Unsupported QR token version", TRUE)
                 ELSE IF t >= payload.expiresAt
                 THEN Thrown("QR token expired", TRUE)
                 ELSE [outcome |-> "returned", payload |-> payload,
                       decoded |-> TRUE]

\* verifySignedQRToken at time t: what it throws or returns, and whether it
\* got to decode the payload
verifySignedQRToken(token, t) ==
    LET parts == split(token, ".")
    IN  IF Len(parts) # 2 THEN Thrown("Malformed QR token payload", FALSE)
        ELSE IF ~timingSafeCompare(parts[2], sign(parts[1]))
        THEN Thrown("Invalid QR token signature", FALSE)
        ELSE LET payload == JSONparse(base64UrlDecode(parts[1]))
             IN  IF payload.version # QR_TOKEN_VERSION
                 THEN Thrown("Unsupported QR token version", TRUE)
                 ELSE IF t > payload.expiresAt
                 THEN Thrown("QR token expired", TRUE)
                 ELSE [outcome |-> "returned", payload |-> payload,
                       decoded |-> TRUE]

\* the parts of a token signed here before, for another student
EarlierParts ==
    split(createSignedQRToken(<<"s", "0">>, <<"C", "y">>, NULL,
                              DEFAULT_TTL_MINUTES, 0, <<"n", "0">>).token, ".")

\* what a scanner can present: an issued token, the payload of one token
\* with the signature of another (one of them may be the earlier token), a
\* payload with a later expiresAt under the old signature, a signature made
\* with another secret, a token of the next version, and texts with no or
\* with two separators
PresentedTokens ==
    LET PartsOf(i) == split(issued[i].token, ".")
    IN
    {issued[i].token : i \in 1..Len(issued)}
      \cup {PartsOf(i)[1] \o <<".">> \o PartsOf(j)[2] :
                i \in 1..Len(issued), j \in 1..Len(issued)}
      \cup {PartsOf(i)[1] \o <<".">> \o EarlierParts[2] : i \in 1..Len(issued)}
      \cup {EarlierParts[1] \o <<".">> \o PartsOf(i)[2] : i \in 1..Len(issued)}
      \cup {base64UrlEncode(BufferFrom(JSONstringify(
                [issued[i].payload EXCEPT !.expiresAt = @ + 10 * TickQRMs])))
                \o <<".">> \o PartsOf(i)[2] : i \in 1..Len(issued)}
      \cup {PartsOf(i)[1] \o <<".">> \o hmac("key-0", PartsOf(i)[1]) :
                i \in 1..Len(issued)}
      \cup {tokenOf([issued[i].payload EXCEPT !.version = QR_TOKEN_VERSION + 1]) :
                i \in 1..Len(issued)}
      \cup {PartsOf(i)[1] : i \in 1..Len(issued)}
      \cup {issued[i].token \o <<".">> : i \in 1..Len(issued)}

\* createSignedQRToken is called
CreateToken(student, ttl) ==
    /\ Len(issued) < MaxTokens
    /\ issued' = Append(issued,
           [ttlMinutes |-> ttlMinutesOf(ttl)] @@
           createSignedQRToken(student.studentId, student.studentName,
                               student.department, ttlMinutesOf(ttl), qrNow,
                               randomUUID(Len(issued))))
    /\ UNCHANGED <<notQR, qrNow, verified>>

\* verifySignedQRToken is called
VerifyToken(token) ==
    /\ verified' = [token |-> token, at |-> qrNow] @@ verifySignedQRToken(token, qrNow)
    /\ UNCHANGED <<notQR, qrNow, issued>>

\* time passes
TickQR ==
    /\ qrNow < MaxQRTicks * TickQRMs
    /\ qrNow' = qrNow + TickQRMs
    /\ UNCHANGED <<notQR, issued, verified>>

NextQR ==
    \/ \E student \in QRStudents, ttl \in TtlInputs : CreateToken(student, ttl)
    \/ \E token \in PresentedTokens : VerifyToken(token)
    \/ TickQR

SpecQR == InitIdle /\ [][NextQR]_vars

\* the token has a payload part and a signature part that is not the
\* signature of the payload part
SignatureMismatch(token) ==
    /\ Len(split(token, ".")) = 2
    /\ split(token, ".")[2] # sign(split(token, ".")[1])

\* C30: a token made by createSignedQRToken has expiresAt = issuedAt + ttl
\* minutes; verifySignedQRToken returns its original payload at every time up
\* to and including expiresAt and throws 'QR token expired' after it; a token
\* whose signature part does not match its payload part is rejected with
\* 'Invalid QR token signature' before anything is decoded
C30_TokenRoundTrip ==
    /\ \A i \in 1..Len(issued) :
           /\ issued[i].payload.expiresAt =
                  issued[i].payload.issuedAt + issued[i].ttlMinutes * 60 * 1000
           /\ (verified.outcome # "none" /\ verified.token = issued[i].token) =>
                  IF verified.at <= issued[i].payload.expiresAt
                  THEN /\ verified.outcome = "returned"
                       /\ verified.payload = issued[i].payload
                  ELSE verified.outcome = "QR token expired"
    /\ (verified.outcome # "none" /\ SignatureMismatch(verified.token)) =>
           /\ verified.outcome = "Invalid QR token signature"
           /\ ~verified.decoded

\* a token with a ttl of one minute was verified in the very millisecond of
\* its expiresAt and its payload came back
C30_Witness ==
    \E i \in 1..Len(issued) :
        /\ issued[i].ttlMinutes = 1
        /\ verified.token = issued[i].token
        /\ verified.at = issued[i].payload.expiresAt
        /\ verified.at > issued[i].payload.issuedAt
        /\ verified.outcome = "returned"
        /\ verified.payload = issued[i].payload

====
